---- MODULE Spec2Model ----
(***************************************************************************)
(* Model of pr::aabbtree and pr::linear_aabbtree                           *)
(* (src/include/preform/sampling.hpp, the part that carries                *)
(* <preform/aabbtree.hpp>) and of pr::static_queue                         *)
(* (src/include/preform/static_queue.hpp).                                 *)
(*                                                                         *)
(* Coordinates are integers.  The input boxes have even corners, so that   *)
(* aabb::center() = (lo + hi) / 2 is exact.  Where the source compares a   *)
(* center with a midpoint or scales it into a bin, the model uses the same *)
(* comparison in exact integer arithmetic.                                 *)
(***************************************************************************)
EXTENDS Integers, Sequences, FiniteSets, TLC

(***************************************************************************)
(* Bounds of the model.                                                    *)
(***************************************************************************)
\* Longest input sequence handed to init.
MaxN == 3
\* Largest leaf cutoff handed to the constructor (the source accepts < 256).
MaxCutoff == 2
\* The sub-range size above which the left subtree is built by std::async.
\* The source's value is 16384 (sampling.hpp:840); the model scales it down
\* so that inputs of MaxN proxies take the async path.
AsyncThreshold == 2
\* Threads available to std::async (the main thread included).
MaxThreads == MaxN
\* Addresses in the allocator's region of one thread.
ArenaSize == 2 * MaxN + 2
\* The capacity N of the static_queue, called QueueN here because N names
\* the dimension of the boxes.
QueueN == 3
\* The values pushed on the queue are 1 .. MaxValue.
MaxValue == 2

(***************************************************************************)
(* Program constants.                                                      *)
(***************************************************************************)
\* Template parameter N of aabbtree2.
N == 2
\* Template parameter Nbins of aabbtree_split_surface_area.
Nbins == 8
\* Stand-in for std::numeric_limits<Tfloat>::infinity().
Inf == 1000

Null == 0
Dims == 0 .. (N - 1)

\* The number of values of the linear node's count, a std::uint8_t: 256 in
\* the source, where the constructor of aabbtree asserts leaf_cutoff_ < 256.
\* The model scales it down with the cutoffs, to the first value above
\* MaxCutoff, so that the largest cutoff the constructor accepts is the
\* largest count the field holds.
CountLimit == MaxCutoff + 1

Min(a, b) == IF a <= b THEN a ELSE b
Max(a, b) == IF a >= b THEN a ELSE b

(***************************************************************************)
(* pr::aabb and pr::multi (preform/aabb.hpp is not part of the sources at  *)
(* hand; these follow the operations the tree uses).                       *)
(***************************************************************************)
Pt(x, y) == [d \in Dims |-> IF d = 0 THEN x ELSE y]
Box(lo, hi) == [lo |-> lo, hi |-> hi]

\* Default-constructed aabb: inverted, so that (box[0] > box[1]).all().
EmptyBox == Box([d \in Dims |-> Inf], [d \in Dims |-> -Inf])

\* aabb |= aabb
BoxUnion(a, b) ==
    Box([d \in Dims |-> Min(a.lo[d], b.lo[d])],
        [d \in Dims |-> Max(a.hi[d], b.hi[d])])

\* aabb |= point
BoxUnionPoint(a, p) ==
    Box([d \in Dims |-> Min(a.lo[d], p[d])],
        [d \in Dims |-> Max(a.hi[d], p[d])])

\* aabb::center()
BoxCenter(b) == [d \in Dims |-> (b.lo[d] + b.hi[d]) \div 2]

\* aabb::diag()
BoxDiag(b) == [d \in Dims |-> b.hi[d] - b.lo[d]]

\* multi::argmax(): index of the first largest element.
ArgMax(v) ==
    CHOOSE d \in Dims :
        /\ \A e \in Dims : v[e] <= v[d]
        /\ \A e \in Dims : e < d => v[e] < v[d]

\* aabb::surface_area() in two dimensions: the perimeter.
BoxSurfaceArea(b) == 2 * (BoxDiag(b)[0] + BoxDiag(b)[1])

(***************************************************************************)
(* Inputs of init: sequences of values, each converted by func to a box.   *)
(***************************************************************************)
BoxSet ==
    { Box(Pt(0, 0), Pt(2, 2)),
      Box(Pt(2, 0), Pt(6, 2)),
      Box(Pt(0, 4), Pt(2, 12)) }

RECURSIVE SeqsUpTo(_, _)
SeqsUpTo(S, n) ==
    IF n = 0 THEN { <<>> }
    ELSE LET shorter == SeqsUpTo(S, n - 1)
         IN  shorter \cup
             { Append(s, x) : s \in { t \in shorter : Len(t) = n - 1 }, x \in S }

Inputs == SeqsUpTo(BoxSet, MaxN)

\* The arrays of boxes the split strategies are called on by themselves:
\* one more box, so that three centers differ along each dimension and one
\* of them lies at the midpoint of the other two.
SplitInputs == SeqsUpTo(BoxSet \cup { Box(Pt(6, 4), Pt(8, 6)) }, MaxN)

\* Values of an input range some of which func converts to a box that is
\* not lower < upper in every dimension: the second box has no extent
\* along dimension 0.
MisuseBoxSet == { Box(Pt(0, 0), Pt(2, 2)), Box(Pt(4, 0), Pt(4, 2)) }

MisuseInputs == SeqsUpTo(MisuseBoxSet, MaxN)

\* Tsplit_mode
SplitModes == { "equal_counts", "equal_dimensions", "surface_area" }

(***************************************************************************)
(* Standard algorithms used by the split strategies.  The standard fixes   *)
(* only their postconditions; every arrangement that satisfies them is a   *)
(* possible outcome.                                                       *)
(***************************************************************************)
\* Mutant of Bijections: any assignment of the positions, so that an
\* algorithm may copy an element over another.
Bijections_Mutant(n) == [1 .. n -> 1 .. n]

Bijections(n) ==
    { f \in [1 .. n -> 1 .. n] : \A i, j \in 1 .. n : f[i] = f[j] => i = j }

Rearrangements(s) ==
    { [i \in 1 .. Len(s) |-> s[f[i]]] : f \in Bijections(Len(s)) }

\* std::nth_element(first, first + nth, last, comp) with
\* comp(p0, p1) = p0.box_center[split_dim] < p1.box_center[split_dim]:
\* nothing before position nth is greater, nothing after it is smaller.
NthElement(s, nth, split_dim) ==
    { q \in Rearrangements(s) :
        \A i \in 1 .. Len(s) :
            /\ i < nth + 1 =>
                 ~ (q[nth + 1].box_center[split_dim] < q[i].box_center[split_dim])
            /\ i > nth + 1 =>
                 ~ (q[i].box_center[split_dim] < q[nth + 1].box_center[split_dim]) }

\* std::partition(first, last, pred), accepted being the elements of s that
\* satisfy pred: they precede the others; the result is the position of the
\* first element that does not satisfy pred.
Partition(s, accepted) ==
    LET split == Cardinality({ i \in 1 .. Len(s) : s[i] \in accepted })
    IN  { [proxies |-> q, split |-> split] :
            q \in { r \in Rearrangements(s) :
                      \A i \in 1 .. Len(s) : r[i] \in accepted <=> i <= split } }

(***************************************************************************)
(* Split strategies.  Each takes the range as the sequence s and yields    *)
(* the possible results: the rearranged range and the split position as an *)
(* offset from proxies.begin().                                            *)
(***************************************************************************)
\* Mutant of SplitEqualCounts: the range is cut in the middle without
\* being arranged by nth_element.
SplitEqualCounts_Mutant(box, box_center, split_dim, s) ==
    { [proxies |-> s, split |-> Len(s) \div 2] }

\* aabbtree_split_equal_counts::operator()
SplitEqualCounts(box, box_center, split_dim, s) ==
    LET split == Len(s) \div 2
    IN  { [proxies |-> q, split |-> split] :
            q \in NthElement(s, split, split_dim) }

\* Mutant of SplitEqualDimensions: the predicate is center <= cen.
SplitEqualDimensions_LessEq(box, box_center, split_dim, s) ==
    LET cen2 == box_center.lo[split_dim] + box_center.hi[split_dim]
        below == { s[i] : i \in { j \in 1 .. Len(s) :
                                   2 * s[j].box_center[split_dim] <= cen2 } }
        parts == Partition(s, below)
    IN  UNION { IF r.split # 0 /\ r.split # Len(s)
                THEN { r }
                ELSE SplitEqualCounts(box, box_center, split_dim, r.proxies) :
                r \in parts }

\* Mutant of SplitEqualDimensions: the result of std::partition is returned
\* without the test for an empty side.
SplitEqualDimensions_Mutant(box, box_center, split_dim, s) ==
    LET cen2 == box_center.lo[split_dim] + box_center.hi[split_dim]
        below == { s[i] : i \in { j \in 1 .. Len(s) :
                                   2 * s[j].box_center[split_dim] < cen2 } }
    IN  Partition(s, below)

\* aabbtree_split_equal_dimensions::operator()
\* cen = (min + max) / 2; center < cen is compared as 2 * center < min + max.
SplitEqualDimensions(box, box_center, split_dim, s) ==
    LET cen2 == box_center.lo[split_dim] + box_center.hi[split_dim]
        below == { s[i] : i \in { j \in 1 .. Len(s) :
                                   2 * s[j].box_center[split_dim] < cen2 } }
        parts == Partition(s, below)
    IN  UNION { IF r.split # 0 /\ r.split # Len(s)
                THEN { r }
                ELSE SplitEqualCounts(box, box_center, split_dim, r.proxies) :
                r \in parts }

\* Mutant of BinPos: the position is clamped to Nbins - 2.
BinPos_Mutant(box_center, split_dim, proxy) ==
    LET cen == proxy.box_center[split_dim]
        cenmin == box_center.lo[split_dim]
        cenmax == box_center.hi[split_dim]
    IN  Min((Nbins * (cen - cenmin)) \div (cenmax - cenmin), Nbins - 2)

\* The bin of a center: min<size_t>(Nbins * ((cen - cenmin) / (cenmax - cenmin)),
\* Nbins - 1), the conversion to size_t truncating.
BinPos(box_center, split_dim, proxy) ==
    LET cen == proxy.box_center[split_dim]
        cenmin == box_center.lo[split_dim]
        cenmax == box_center.hi[split_dim]
    IN  Min((Nbins * (cen - cenmin)) \div (cenmax - cenmin), Nbins - 1)

RECURSIVE BoxOfProxies(_)
\* box |= proxy.box over a sequence of proxies.
BoxOfProxies(s) ==
    IF s = <<>> THEN EmptyBox
    ELSE BoxUnion(BoxOfProxies(SubSeq(s, 1, Len(s) - 1)), s[Len(s)].box)

RECURSIVE BoxOfCenters(_)
\* box_center |= proxy.box_center over a sequence of proxies.
BoxOfCenters(s) ==
    IF s = <<>> THEN EmptyBox
    ELSE BoxUnionPoint(BoxOfCenters(SubSeq(s, 1, Len(s) - 1)),
                       s[Len(s)].box_center)

\* The proxies of s that fall in bins lo .. hi.
InBins(box_center, split_dim, s, lo, hi) ==
    SelectSeq(s, LAMBDA proxy :
        /\ lo <= BinPos(box_center, split_dim, proxy)
        /\ BinPos(box_center, split_dim, proxy) <= hi)

\* lsweep[k]: running union and count of bins 0 .. k.
LSweep(box_center, split_dim, s, k) ==
    LET in == InBins(box_center, split_dim, s, 0, k)
    IN  [first |-> BoxOfProxies(in), second |-> Len(in)]

\* rsweep[k]: running union and count of bins k + 1 .. Nbins - 1.
RSweep(box_center, split_dim, s, k) ==
    LET in == InBins(box_center, split_dim, s, k + 1, Nbins - 1)
    IN  [first |-> BoxOfProxies(in), second |-> Len(in)]

\* costs[k]
SplitCost(box_center, split_dim, s, k) ==
    LET l == LSweep(box_center, split_dim, s, k)
        r == RSweep(box_center, split_dim, s, k)
    IN  BoxSurfaceArea(l.first) * l.second + BoxSurfaceArea(r.first) * r.second

\* Mutant of CostsArgMin: std::max_element, the first largest.
CostsArgMin_Mutant(box_center, split_dim, s) ==
    CHOOSE k \in 0 .. (Nbins - 2) :
        /\ \A j \in 0 .. (Nbins - 2) :
              SplitCost(box_center, split_dim, s, k)
                  >= SplitCost(box_center, split_dim, s, j)
        /\ \A j \in 0 .. (Nbins - 2) :
              j < k => SplitCost(box_center, split_dim, s, k)
                           > SplitCost(box_center, split_dim, s, j)

\* std::min_element over costs: the first smallest.
CostsArgMin(box_center, split_dim, s) ==
    CHOOSE k \in 0 .. (Nbins - 2) :
        /\ \A j \in 0 .. (Nbins - 2) :
              SplitCost(box_center, split_dim, s, k)
                  <= SplitCost(box_center, split_dim, s, j)
        /\ \A j \in 0 .. (Nbins - 2) :
              j < k => SplitCost(box_center, split_dim, s, k)
                           < SplitCost(box_center, split_dim, s, j)

\* Mutant of SplitSurfaceArea: a range without extent along the split
\* dimension is cut in the middle without being arranged by nth_element
\* first, at the position rounded up.
SplitSurfaceArea_Mutant(box, box_center, split_dim, s) ==
    IF box_center.lo[split_dim] = box_center.hi[split_dim]
    THEN { [proxies |-> s, split |-> Len(s) - Len(s) \div 2] }
    ELSE LET costs_argmin == CostsArgMin(box_center, split_dim, s)
             left == { s[i] : i \in { j \in 1 .. Len(s) :
                          BinPos(box_center, split_dim, s[j]) <= costs_argmin } }
             parts == Partition(s, left)
         IN  UNION { IF r.split # 0 /\ r.split # Len(s)
                     THEN { r }
                     ELSE SplitEqualCounts(box, box_center, split_dim, r.proxies) :
                     r \in parts }

\* aabbtree_split_surface_area::operator()
SplitSurfaceArea(box, box_center, split_dim, s) ==
    IF box_center.lo[split_dim] = box_center.hi[split_dim]
    THEN SplitEqualCounts(box, box_center, split_dim, s)
    ELSE LET costs_argmin == CostsArgMin(box_center, split_dim, s)
             left == { s[i] : i \in { j \in 1 .. Len(s) :
                          BinPos(box_center, split_dim, s[j]) <= costs_argmin } }
             parts == Partition(s, left)
         IN  UNION { IF r.split # 0 /\ r.split # Len(s)
                     THEN { r }
                     ELSE SplitEqualCounts(box, box_center, split_dim, r.proxies) :
                     r \in parts }

\* Tsplit_mode()(box, box_center, split_dim, proxies)
Split(mode, box, box_center, split_dim, s) ==
    CASE mode = "equal_counts" ->
            SplitEqualCounts(box, box_center, split_dim, s)
      [] mode = "equal_dimensions" ->
            SplitEqualDimensions(box, box_center, split_dim, s)
      [] mode = "surface_area" ->
            SplitSurfaceArea(box, box_center, split_dim, s)

(***************************************************************************)
(* State.                                                                  *)
(***************************************************************************)
VARIABLES
    leaf_cutoff_,     \* aabbtree::leaf_cutoff_
    split_mode,       \* template parameter Tsplit_mode
    root_,            \* aabbtree::root_
    total_branches_,  \* aabbtree::total_branches_
    total_leaves_,    \* aabbtree::total_leaves_
    proxies_,         \* aabbtree::proxies_
    allocated,        \* node addresses handed out by node_alloc_ and not freed
    heap,             \* contents of the nodes that have been written
    mutex,            \* node_alloc_mutex_: the thread holding it, or 0
    total_branches,   \* init's local std::atomic<size_type> total_branches
    total_leaves,     \* init's local std::atomic<size_type> total_leaves
    cursors,          \* the cursor variables: cursors[1] is init's local
                      \* first_index, the others are the first_index_left
                      \* locals of the calls that spawned a task
    stacks,           \* per thread, the frames of its init_recursive calls
    futures,          \* per thread, the value its outermost call returned
    nthreads,         \* threads started so far, the main thread included
    status,           \* "idle", "building", "built", "aborted", "overflow"
    nodes_,           \* linear_aabbtree::nodes_ of the tree linearized last
    input,            \* history: the values of the range [from, to) of the
                      \* init call in progress or returned last, <<>> if
                      \* the tree was constructed or cleared since
    freed,            \* history: the number of nodes the latest clear()
                      \* deallocated, 0 once init_recursive has taken a
                      \* step since
    linearized,       \* history: a linear_aabbtree has been constructed
                      \* from the tree as it is now
    ndebug,           \* the build is known to define NDEBUG: an assertion
                      \* that failed has let the program go on.  Until an
                      \* assertion fails, a build with assertions and one
                      \* without behave alike and the model leaves open
                      \* which of them it follows
    arr_,             \* static_queue::arr_
    bot_,             \* static_queue::bot_
    top_,             \* static_queue::top_
    fifo,             \* history: the values pushed and not yet popped, in
                      \* the order of the pushes
    last,             \* history: the latest call on the queue and its
                      \* outcome
    shifted           \* history: the queue holds values that a push has
                      \* moved down

vars == << leaf_cutoff_, split_mode, root_, total_branches_, total_leaves_,
           proxies_, allocated, heap, mutex, total_branches, total_leaves,
           cursors, stacks, futures, nthreads, status, nodes_, input, freed,
           linearized, ndebug, arr_, bot_, top_, fifo, last, shifted >>

\* The static_queue and its history.
queue_vars == << arr_, bot_, top_, fifo, last, shifted >>
\* The history of the calls on the tree.
history == << input, freed, linearized >>

Threads == 1 .. MaxThreads
Main == 1

\* A call of init_recursive(total_branches, total_leaves, first_index,
\* {begin, end}); cursor names the variable first_index refers to.
Frame(begin, end, cursor) ==
    [ pc |-> "lock", begin |-> begin, end |-> end, cursor |-> cursor,
      node |-> Null, box |-> EmptyBox, box_center |-> EmptyBox,
      split_dim |-> 0, split |-> 0, left |-> Null, right |-> Null,
      future |-> 0 ]

Top(t) == stacks[t][Len(stacks[t])]
Running(t) == status = "building" /\ stacks[t] # <<>>
At(t, pc) == Running(t) /\ Top(t).pc = pc

\* A call of init_recursive on the range of its caller repeats the caller,
\* which then makes the same call again: the recursion does not end.  The
\* model stops such a build with status "overflow" (the stack is exhausted)
\* at the first such call.  The call on {proxies.begin(), split} has the
\* caller's range if split = end, the call on {split, proxies.end()} if
\* split = begin.
LeftCallRepeats(f) == f.split = f.end
RightCallRepeats(f) == f.split = f.begin

\* The stack of t with its top frame replaced.
SetTop(t, f) == [stacks[t] EXCEPT ![Len(stacks[t])] = f]

\* proxies_ in [begin, end)
Range(begin, end) == SubSeq(proxies_, begin + 1, end)

\* proxies_ with [begin, end) replaced by s
PutRange(begin, s) ==
    [i \in 1 .. Len(proxies_) |->
        IF begin < i /\ i <= begin + Len(s) THEN s[i - begin] ELSE proxies_[i]]

(***************************************************************************)
(* pr::static_queue<T, N> (src/include/preform/static_queue.hpp).  T is a  *)
(* type of small integers; Default is the value-initialized T.             *)
(***************************************************************************)
Values == 1 .. MaxValue
Default == 0

\* No call on the queue yet.
NoCall == [call |-> "none", thrown |-> "none", value |-> Default]

\* static_queue(): arr_ = {}, bot_ = 0, top_ = 0
QueueConstructed ==
    /\ arr_ = [i \in 1 .. QueueN |-> Default]
    /\ bot_ = 0
    /\ top_ = 0
    /\ fifo = <<>>
    /\ last = NoCall
    /\ shifted = FALSE

\* Mutant of CutoffAccepted: the assertion is leaf_cutoff_ <= 256.
CutoffAccepted_Mutant(leaf_cutoff) == leaf_cutoff <= CountLimit

\* aabbtree::aabbtree: assert(leaf_cutoff_ < size_type(256)), with 256
\* scaled to CountLimit.
CutoffAccepted(leaf_cutoff) == leaf_cutoff < CountLimit

\* aabbtree::init: assert((box[0] < box[1]).all())
BoxAccepted(box) == \A d \in Dims : box.lo[d] < box.hi[d]

\* aabbtree::aabbtree(leaf_cutoff) with leaf_cutoff among cutoffs, and a
\* static_queue.  Where the assertion on leaf_cutoff_ fails, the build with
\* assertions aborts and the build without them has constructed the tree.
Constructed(cutoffs) ==
    /\ leaf_cutoff_ \in cutoffs
    /\ split_mode \in SplitModes
    /\ root_ = Null
    /\ total_branches_ = 0
    /\ total_leaves_ = 0
    /\ proxies_ = <<>>
    /\ allocated = {}
    /\ heap = <<>>
    /\ mutex = 0
    /\ total_branches = 0
    /\ total_leaves = 0
    /\ cursors = <<>>
    /\ stacks = [t \in Threads |-> <<>>]
    /\ futures = [t \in Threads |-> Null]
    /\ nthreads = 0
    /\ IF CutoffAccepted(leaf_cutoff_)
       THEN status = "idle" /\ ndebug = FALSE
       ELSE \/ status = "aborted" /\ ndebug = FALSE
            \/ status = "idle" /\ ndebug = TRUE
    /\ nodes_ = <<>>
    /\ input = <<>>
    /\ freed = 0
    /\ linearized = FALSE
    /\ QueueConstructed

\* aabbtree::aabbtree(leaf_cutoff) with a cutoff that meets the
\* constructor's precondition.
Init == Constructed(0 .. MaxCutoff)

\* aabbtree::aabbtree(leaf_cutoff) with any cutoff up to the first one the
\* constructor's assertion rejects.
MisuseInit == Constructed(0 .. CountLimit)

\* Mutant of MakeProxies: value_index is incremented before the proxy is
\* made, so that it counts from one.
MakeProxies_Mutant(values) ==
    [i \in 1 .. Len(values) |->
        [box |-> values[i], box_center |-> BoxCenter(values[i]),
         value_index |-> i]]

\* The proxies init makes of its input: box, box.center(), value_index.
MakeProxies(values) ==
    [i \in 1 .. Len(values) |->
        [box |-> values[i], box_center |-> BoxCenter(values[i]),
         value_index |-> i - 1]]

RECURSIVE Reach_Mutant(_)
\* Mutant of Reach: deallocate_recursive does not descend into the right
\* branch.
Reach_Mutant(node) ==
    IF node = Null THEN {}
    ELSE { node } \cup Reach_Mutant(heap[node].left)

RECURSIVE Reach(_)
\* The nodes deallocate_recursive(node) visits.
Reach(node) ==
    IF node = Null THEN {}
    ELSE { node } \cup Reach(heap[node].left) \cup Reach(heap[node].right)

RECURSIVE DeallocateCalls(_)
\* The calls of deallocate that deallocate_recursive(node) makes, in order:
\* the left subtree, the right subtree, the node.
DeallocateCalls(node) ==
    IF node = Null THEN <<>>
    ELSE DeallocateCalls(heap[node].left) \o DeallocateCalls(heap[node].right)
             \o << node >>

\* Mutant of EarlyReturn: the test is count < 0, so that init goes on with
\* an empty range.
EarlyReturn_Mutant(count) == count < 0

\* init: if (count < 1) return
EarlyReturn(count) == count < 1

\* aabbtree::init(from, to, func) up to its call of init_recursive, values
\* being func(*from) for the elements of the range: clear(), the early
\* return on an empty input, the proxies with the assertion on each box,
\* and the local counters and cursor.  Where the assertion fails on an
\* element, the build with assertions aborts with the proxies made before
\* it and the build without them goes on.
InitOn(values) ==
    /\ status \in { "idle", "built" }
    /\ allocated' = allocated \ Reach(root_)
    /\ heap' = [n \in DOMAIN heap \ Reach(root_) |-> heap[n]]
    /\ freed' = Len(DeallocateCalls(root_))
    /\ root_' = Null
    /\ total_branches_' = 0
    /\ total_leaves_' = 0
    /\ linearized' = FALSE
    /\ input' = values
    /\ LET rejected == { i \in 1 .. Len(values) : ~ BoxAccepted(values[i]) }
           first == CHOOSE i \in rejected : \A j \in rejected : i <= j
       IN
         IF EarlyReturn(Len(values))
         THEN /\ proxies_' = <<>>
              /\ cursors' = <<>>
              /\ stacks' = [t \in Threads |-> <<>>]
              /\ nthreads' = 0
              /\ status' = "built"
              /\ UNCHANGED ndebug
         ELSE \/ /\ rejected # {}
                 /\ ~ ndebug
                 /\ proxies_' = MakeProxies(SubSeq(values, 1, first - 1))
                 /\ cursors' = <<>>
                 /\ stacks' = [t \in Threads |-> <<>>]
                 /\ nthreads' = 0
                 /\ status' = "aborted"
                 /\ UNCHANGED ndebug
              \/ /\ proxies_' = MakeProxies(values)
                 /\ cursors' = << 0 >>
                 /\ stacks' = [t \in Threads |->
                                 IF t = Main THEN << Frame(0, Len(values), 1) >>
                                 ELSE <<>>]
                 /\ nthreads' = 1
                 /\ status' = "building"
                 /\ ndebug' = (ndebug \/ rejected # {})
    /\ total_branches' = 0
    /\ total_leaves' = 0
    /\ futures' = [t \in Threads |-> Null]
    /\ nodes_' = <<>>
    /\ UNCHANGED << queue_vars,
                    leaf_cutoff_, split_mode, mutex >>

\* aabbtree::init on an input that meets its precondition.
InitCall == \E values \in Inputs : InitOn(values)

\* aabbtree::init on an input that may not meet its precondition.
MisuseInitCall == \E values \in MisuseInputs : InitOn(values)

(***************************************************************************)
(* aabbtree::init_recursive, one action per step of a call.                *)
(***************************************************************************)
\* Mutant of Lock: the lock is taken whether or not another thread holds it.
Lock_Mutant(t) ==
    /\ At(t, "lock")
    /\ mutex' = t
    /\ stacks' = [stacks EXCEPT ![t] = SetTop(t, [Top(t) EXCEPT !.pc = "allocate"])]
    /\ freed' = 0
    /\ UNCHANGED << queue_vars, input, linearized, ndebug,
                    leaf_cutoff_, split_mode, root_, total_branches_,
                    total_leaves_, proxies_, allocated, heap, total_branches,
                    total_leaves, cursors, futures, nthreads, status, nodes_ >>

\* allocate(): std::unique_lock<std::mutex> lock(node_alloc_mutex_)
Lock(t) ==
    /\ At(t, "lock")
    /\ mutex = 0
    /\ mutex' = t
    /\ stacks' = [stacks EXCEPT ![t] = SetTop(t, [Top(t) EXCEPT !.pc = "allocate"])]
    /\ freed' = 0
    /\ UNCHANGED << queue_vars, input, linearized, ndebug,
                    leaf_cutoff_, split_mode, root_, total_branches_,
                    total_leaves_, proxies_, allocated, heap, total_branches,
                    total_leaves, cursors, futures, nthreads, status, nodes_ >>

\* node_allocator_traits::allocate(node_alloc_, 1) called by thread t: an
\* address not in use.  Which one is the allocator's choice; the model takes
\* the lowest free address of a region kept per calling thread, as
\* allocators with per-thread caches do.
NewNode(t) ==
    CHOOSE n \in ((t - 1) * ArenaSize + 1) .. (t * ArenaSize) :
        /\ n \notin allocated
        /\ \A m \in ((t - 1) * ArenaSize + 1) .. (n - 1) : m \in allocated

\* allocate(): the allocation and the release of the lock on return.
Allocate(t) ==
    /\ At(t, "allocate")
    /\ mutex = t
    /\ allocated' = allocated \cup { NewNode(t) }
    /\ mutex' = 0
    /\ stacks' = [stacks EXCEPT ![t] =
                    SetTop(t, [Top(t) EXCEPT !.pc = "build", !.node = NewNode(t)])]
    /\ freed' = 0
    /\ UNCHANGED << queue_vars, input, linearized, ndebug,
                    leaf_cutoff_, split_mode, root_, total_branches_,
                    total_leaves_, proxies_, heap, total_branches,
                    total_leaves, cursors, futures, nthreads, status, nodes_ >>

\* Mutant of Surround: the box collects the box centers.
Surround_Mutant(f) ==
    [f EXCEPT !.box = BoxOfCenters(Range(f.begin, f.end)),
              !.box_center = BoxOfCenters(Range(f.begin, f.end))]

\* The frame after the loop that surrounds the boxes and the box centers of
\* the range.
Surround(f) ==
    [f EXCEPT !.box = BoxOfProxies(Range(f.begin, f.end)),
              !.box_center = BoxOfCenters(Range(f.begin, f.end))]

\* The leaf node_type{box, nullptr, nullptr, 0, first_index, count}
LeafNode(box, first_index, count) ==
    [ box |-> box, left |-> Null, right |-> Null, split_dim |-> 0,
      first_index |-> first_index, count |-> count ]

\* Mutant of BranchNode: the right child is left null.
BranchNode_Mutant(box, left, right, split_dim) ==
    [ box |-> box, left |-> left, right |-> Null, split_dim |-> split_dim,
      first_index |-> 0, count |-> 0 ]

\* The branch node_type{box, left, right, split_dim, 0, 0}
BranchNode(box, left, right, split_dim) ==
    [ box |-> box, left |-> left, right |-> right, split_dim |-> split_dim,
      first_index |-> 0, count |-> 0 ]

\* Mutant of IsLeafRange: the test is count < leaf_cutoff_.
IsLeafRange_Strict(count) == count < leaf_cutoff_

\* Mutant of IsLeafRange: the test admits one proxy more.
IsLeafRange_Mutant(count) == count <= leaf_cutoff_ + 1

\* if (count <= leaf_cutoff_)
IsLeafRange(count) == count <= leaf_cutoff_

\* Mutant of Incremented: the increment is lost.
Incremented_Mutant(counter) == counter

\* operator++ of std::atomic<size_type>: one indivisible read-modify-write.
Incremented(counter) == counter + 1

\* The surround loop, assert(count), the test count <= leaf_cutoff_ taken,
\* and the initialization of the leaf with the current first_index.  Where
\* assert(count) fails, the build with assertions aborts and the build
\* without them continues.
InitLeaf(t) ==
    /\ At(t, "build")
    /\ LET f == Surround(Top(t))
           count == f.end - f.begin
       IN  /\ IsLeafRange(count)
           /\ \/ /\ count = 0
                 /\ ~ ndebug
                 /\ status' = "aborted"
                 /\ UNCHANGED << heap, stacks, ndebug >>
              \/ /\ heap' = (f.node :> LeafNode(f.box, cursors[f.cursor], count))
                                @@ heap
                 /\ stacks' = [stacks EXCEPT ![t] =
                                 SetTop(t, [f EXCEPT !.pc = "shift"])]
                 /\ ndebug' = (ndebug \/ count = 0)
                 /\ UNCHANGED status
    /\ freed' = 0
    /\ UNCHANGED << queue_vars, input, linearized,
                    leaf_cutoff_, split_mode, root_, total_branches_,
                    total_leaves_, proxies_, allocated, mutex, total_branches,
                    total_leaves, cursors, futures, nthreads, nodes_ >>

\* The stack of t after its top frame returned node to the frame below:
\* the caller stores the left child and calls init_recursive on
\* {split, proxies.end()}, or stores the right child and goes on to
\* future_left.get() or to the initialization of its node.
Returned(t, node) ==
    LET rest == SubSeq(stacks[t], 1, Len(stacks[t]) - 1)
        c == rest[Len(rest)]
    IN  IF rest = <<>> THEN <<>>
        ELSE IF c.pc = "in_left"
        THEN Append([rest EXCEPT ![Len(rest)] =
                        [c EXCEPT !.left = node, !.pc = "in_right"]],
                    Frame(c.split, c.end, c.cursor))
        ELSE [rest EXCEPT ![Len(rest)] =
                 [c EXCEPT !.right = node,
                           !.pc = IF c.future = 0 THEN "branch" ELSE "wait"]]

\* What a thread's outermost call returned: the value of the future, or for
\* the main thread the value init assigns to root_.
Result(t, node) ==
    IF Len(stacks[t]) = 1 THEN [futures EXCEPT ![t] = node] ELSE futures

\* Mutant of Shifted: ++first_index.
Shifted_Mutant(first_index, count) == first_index + 1

\* first_index += count
Shifted(first_index, count) == first_index + count

\* The caller of the top frame of t is about to call init_recursive on
\* {split, proxies.end()} and that call has the caller's own range.
ReturnsIntoRepeat(t) ==
    /\ Len(stacks[t]) > 1
    /\ stacks[t][Len(stacks[t]) - 1].pc = "in_left"
    /\ RightCallRepeats(stacks[t][Len(stacks[t]) - 1])

\* first_index += count; total_leaves++ (atomic); return node
ShiftFirstIndex(t) ==
    /\ At(t, "shift")
    /\ LET f == Top(t)
       IN  /\ cursors' = [cursors EXCEPT ![f.cursor] = Shifted(@, f.end - f.begin)]
           /\ total_leaves' = Incremented(total_leaves)
           /\ stacks' = [stacks EXCEPT ![t] = Returned(t, f.node)]
           /\ futures' = Result(t, f.node)
           /\ status' = IF ReturnsIntoRepeat(t) THEN "overflow" ELSE status
    /\ freed' = 0
    /\ UNCHANGED << queue_vars, input, linearized, ndebug,
                    leaf_cutoff_, split_mode, root_, total_branches_,
                    total_leaves_, proxies_, allocated, heap, mutex,
                    total_branches, nthreads, nodes_ >>

\* The surround loop, the test count <= leaf_cutoff_ not taken, the split
\* dimension, the call of Tsplit_mode and the assertion on its result; then,
\* if count <= 16384, the call of init_recursive on {proxies.begin(), split}.
SplitRange(t) ==
    /\ At(t, "build")
    /\ LET f == Surround(Top(t))
           count == f.end - f.begin
           split_dim == ArgMax(BoxDiag(f.box_center))
       IN  /\ ~ IsLeafRange(count)
           /\ \E r \in Split(split_mode, f.box, f.box_center, split_dim,
                             Range(f.begin, f.end)) :
                LET split == f.begin + r.split
                    g == [f EXCEPT !.split_dim = split_dim, !.split = split]
                IN  /\ proxies_' = PutRange(f.begin, r.proxies)
                    /\ IF ~ (f.begin <= split /\ f.end > split)
                       THEN /\ status' = "aborted"
                            /\ UNCHANGED stacks
                       ELSE IF ~ (count <= AsyncThreshold)
                       THEN /\ stacks' = [stacks EXCEPT ![t] =
                                             SetTop(t, [g EXCEPT !.pc = "spawn"])]
                            /\ UNCHANGED status
                       ELSE IF LeftCallRepeats(g)
                       THEN /\ status' = "overflow"
                            /\ UNCHANGED stacks
                       ELSE /\ stacks' =
                                 [stacks EXCEPT ![t] =
                                    Append(SetTop(t, [g EXCEPT !.pc = "in_left"]),
                                           Frame(f.begin, split, f.cursor))]
                            /\ UNCHANGED status
    /\ freed' = 0
    /\ UNCHANGED << queue_vars, input, linearized, ndebug,
                    leaf_cutoff_, split_mode, root_, total_branches_,
                    total_leaves_, allocated, heap, mutex, total_branches,
                    total_leaves, cursors, futures, nthreads, nodes_ >>

\* Mutant of LeftCursor: the async call is given first_index itself.
LeftCursor_Mutant(f) == f.cursor

\* The cursor the async call of init_recursive is given: the caller's local
\* first_index_left, a new variable.
LeftCursor(f) == Len(cursors) + 1

\* Mutant of SpawnCursors: first_index is not advanced past the left range.
SpawnCursors_Mutant(f) == Append(cursors, cursors[f.cursor])

\* size_type first_index_left = first_index;
\* first_index += std::distance(proxies.begin(), split);
SpawnCursors(f) ==
    Append([cursors EXCEPT ![f.cursor] = @ + (f.split - f.begin)],
           cursors[f.cursor])

\* Mutant of Spawn: the call on the right range starts one proxy before
\* split.
Spawn_Mutant(t) ==
    /\ At(t, "spawn")
    /\ LET f == Top(t)
           u == nthreads + 1
       IN  IF u > MaxThreads \/ RightCallRepeats(f)
           THEN /\ status' = "overflow"
                /\ UNCHANGED << cursors, stacks, nthreads >>
           ELSE /\ cursors' = SpawnCursors(f)
                /\ stacks' =
                     [stacks EXCEPT
                        ![u] = << Frame(f.begin, f.split, LeftCursor(f)) >>,
                        ![t] = Append(SetTop(t, [f EXCEPT !.pc = "in_right",
                                                          !.future = u]),
                                      Frame(f.split - 1, f.end, f.cursor))]
                /\ nthreads' = u
                /\ UNCHANGED status
    /\ freed' = 0
    /\ UNCHANGED << queue_vars, input, linearized, ndebug,
                    leaf_cutoff_, split_mode, root_, total_branches_,
                    total_leaves_, proxies_, allocated, heap, mutex,
                    total_branches, total_leaves, futures, nodes_ >>

\* The two cursor statements, future_left = std::async(...) on
\* {proxies.begin(), split}, and the call of init_recursive on
\* {split, proxies.end()}.
Spawn(t) ==
    /\ At(t, "spawn")
    /\ LET f == Top(t)
           u == nthreads + 1
       IN  IF u > MaxThreads \/ RightCallRepeats(f)
           THEN /\ status' = "overflow"
                /\ UNCHANGED << cursors, stacks, nthreads >>
           ELSE /\ cursors' = SpawnCursors(f)
                /\ stacks' =
                     [stacks EXCEPT
                        ![u] = << Frame(f.begin, f.split, LeftCursor(f)) >>,
                        ![t] = Append(SetTop(t, [f EXCEPT !.pc = "in_right",
                                                          !.future = u]),
                                      Frame(f.split, f.end, f.cursor))]
                /\ nthreads' = u
                /\ UNCHANGED status
    /\ freed' = 0
    /\ UNCHANGED << queue_vars, input, linearized, ndebug,
                    leaf_cutoff_, split_mode, root_, total_branches_,
                    total_leaves_, proxies_, allocated, heap, mutex,
                    total_branches, total_leaves, futures, nodes_ >>

\* Mutant of Wait: get() returns what the future holds at the time of the
\* call, without blocking until the task has returned.
Wait_Mutant(t) ==
    /\ At(t, "wait")
    /\ LET f == Top(t)
       IN  stacks' = [stacks EXCEPT ![t] =
                         SetTop(t, [f EXCEPT !.left = futures[f.future],
                                             !.pc = "branch"])]
    /\ freed' = 0
    /\ UNCHANGED << queue_vars, input, linearized, ndebug,
                    leaf_cutoff_, split_mode, root_, total_branches_,
                    total_leaves_, proxies_, allocated, heap, mutex,
                    total_branches, total_leaves, cursors, futures, nthreads,
                    status, nodes_ >>

\* left = future_left.get(): blocks until the task has returned.
Wait(t) ==
    /\ At(t, "wait")
    /\ LET f == Top(t)
       IN  /\ stacks[f.future] = <<>>
           /\ futures[f.future] # Null
           /\ stacks' = [stacks EXCEPT ![t] =
                           SetTop(t, [f EXCEPT !.left = futures[f.future],
                                               !.pc = "branch"])]
    /\ freed' = 0
    /\ UNCHANGED << queue_vars, input, linearized, ndebug,
                    leaf_cutoff_, split_mode, root_, total_branches_,
                    total_leaves_, proxies_, allocated, heap, mutex,
                    total_branches, total_leaves, cursors, futures, nthreads,
                    status, nodes_ >>

\* *node = node_type{box, left, right, split_dim, 0, 0};
\* total_branches++ (atomic); return node
InitBranch(t) ==
    /\ At(t, "branch")
    /\ LET f == Top(t)
       IN  /\ heap' = (f.node :> BranchNode(f.box, f.left, f.right, f.split_dim))
                          @@ heap
           /\ total_branches' = Incremented(total_branches)
           /\ stacks' = [stacks EXCEPT ![t] = Returned(t, f.node)]
           /\ futures' = Result(t, f.node)
           /\ status' = IF ReturnsIntoRepeat(t) THEN "overflow" ELSE status
    /\ freed' = 0
    /\ UNCHANGED << queue_vars, input, linearized, ndebug,
                    leaf_cutoff_, split_mode, root_, total_branches_,
                    total_leaves_, proxies_, allocated, mutex, total_leaves,
                    cursors, nthreads, nodes_ >>

\* aabbtree::init after init_recursive returned: root_, the assertion
\* first_index == proxies_.size() and the two totals.
InitReturn ==
    /\ status = "building"
    /\ stacks[Main] = <<>>
    /\ futures[Main] # Null
    /\ root_' = futures[Main]
    /\ total_branches_' = total_branches
    /\ total_leaves_' = total_leaves
    /\ \/ /\ cursors[1] # Len(proxies_)
          /\ ~ ndebug
          /\ status' = "aborted"
          /\ UNCHANGED ndebug
       \/ /\ status' = "built"
          /\ ndebug' = (ndebug \/ cursors[1] # Len(proxies_))
    /\ freed' = 0
    /\ UNCHANGED << queue_vars, input, linearized,
                    leaf_cutoff_, split_mode, proxies_, allocated, heap, mutex,
                    total_branches, total_leaves, cursors, stacks, futures,
                    nthreads, nodes_ >>

\* Mutant of Clear: the proxies are kept.
Clear_Mutant ==
    /\ status \in { "idle", "built" }
    /\ allocated' = allocated \ Reach(root_)
    /\ heap' = [n \in DOMAIN heap \ Reach(root_) |-> heap[n]]
    /\ root_' = Null
    /\ total_branches_' = 0
    /\ total_leaves_' = 0
    /\ status' = "idle"
    /\ freed' = Len(DeallocateCalls(root_))
    /\ input' = <<>>
    /\ linearized' = FALSE
    /\ UNCHANGED << queue_vars, ndebug, proxies_, leaf_cutoff_, split_mode, mutex,
                    total_branches, total_leaves, cursors, stacks, futures,
                    nthreads, nodes_ >>

\* aabbtree::clear
Clear ==
    /\ status \in { "idle", "built" }
    /\ allocated' = allocated \ Reach(root_)
    /\ heap' = [n \in DOMAIN heap \ Reach(root_) |-> heap[n]]
    /\ root_' = Null
    /\ total_branches_' = 0
    /\ total_leaves_' = 0
    /\ proxies_' = <<>>
    /\ status' = "idle"
    /\ freed' = Len(DeallocateCalls(root_))
    /\ input' = <<>>
    /\ linearized' = FALSE
    /\ UNCHANGED << queue_vars, ndebug,
                    leaf_cutoff_, split_mode, mutex, total_branches,
                    total_leaves, cursors, stacks, futures, nthreads, nodes_ >>

(***************************************************************************)
(* linear_aabbtree                                                         *)
(***************************************************************************)
\* Mutant of StoredCount: the field is one value narrower.
StoredCount_Mutant(count) == count % (CountLimit - 1)

\* node.count = tree_node->count: the conversion of size_type to the
\* unsigned field, modulo the number of its values.
StoredCount(count) == count % CountLimit

\* A value-initialized linear node_type holding box.  right_offset and
\* first_index are the two names of one 32-bit union member.
LinearNode(box) ==
    [ box |-> box, right_offset |-> 0, first_index |-> 0, count |-> 0,
      split_dim |-> 0 ]

\* The assertions of linear_aabbtree::init_recursive on one pointer node.
FlattenAsserts(tree_node) ==
    /\ tree_node # Null
    /\ IF heap[tree_node].count # 0
       THEN /\ heap[tree_node].left = Null
            /\ heap[tree_node].right = Null
            /\ heap[tree_node].count < CountLimit
       ELSE /\ heap[tree_node].left # Null
            /\ heap[tree_node].right # Null

RECURSIVE Flatten_Mutant(_, _)
\* Mutant of Flatten: the right branch is flattened before the left one.
Flatten_Mutant(tree_node, nodes) ==
    LET n == heap[tree_node]
        node_index == Len(nodes)
        emplaced == Append(nodes, LinearNode(n.box))
    IN  IF n.count # 0
        THEN [emplaced EXCEPT
                ![node_index + 1].first_index = n.first_index,
                ![node_index + 1].right_offset = n.first_index,
                ![node_index + 1].count = StoredCount(n.count)]
        ELSE LET with_right == Flatten_Mutant(n.right, emplaced)
                 offset == Len(with_right) - node_index
             IN  Flatten_Mutant(n.left,
                                [with_right EXCEPT
                                   ![node_index + 1].right_offset = offset,
                                   ![node_index + 1].first_index = offset,
                                   ![node_index + 1].split_dim =
                                       n.split_dim % (2 ^ 8)])

RECURSIVE Flatten_Absolute(_, _)
\* Mutant of Flatten: right_offset is nodes_.size(), the index of the right
\* child, and not its distance from the node.
Flatten_Absolute(tree_node, nodes) ==
    LET n == heap[tree_node]
        node_index == Len(nodes)
        emplaced == Append(nodes, LinearNode(n.box))
    IN  IF n.count # 0
        THEN [emplaced EXCEPT
                ![node_index + 1].first_index = n.first_index,
                ![node_index + 1].right_offset = n.first_index,
                ![node_index + 1].count = StoredCount(n.count)]
        ELSE LET with_left == Flatten_Absolute(n.left, emplaced)
                 offset == Len(with_left)
             IN  Flatten_Absolute(n.right,
                         [with_left EXCEPT
                            ![node_index + 1].right_offset = offset,
                            ![node_index + 1].first_index = offset,
                            ![node_index + 1].split_dim = n.split_dim % (2 ^ 8)])

RECURSIVE Flatten(_, _)
\* linear_aabbtree::init_recursive(tree_node), nodes being nodes_ before
\* the call and the result nodes_ after it.  count and split_dim are stored
\* in unsigned 8-bit fields (count with the scaled number of values, see
\* CountLimit); first_index and right_offset are stored in 32 bits, which
\* no index of the model approaches.
Flatten(tree_node, nodes) ==
    LET n == heap[tree_node]
        node_index == Len(nodes)
        emplaced == Append(nodes, LinearNode(n.box))
    IN  IF n.count # 0
        THEN [emplaced EXCEPT
                ![node_index + 1].first_index = n.first_index,
                ![node_index + 1].right_offset = n.first_index,
                ![node_index + 1].count = StoredCount(n.count)]
        ELSE LET with_left == Flatten(n.left, emplaced)
                 offset == Len(with_left) - node_index
             IN  Flatten(n.right,
                         [with_left EXCEPT
                            ![node_index + 1].right_offset = offset,
                            ![node_index + 1].first_index = offset,
                            ![node_index + 1].split_dim = n.split_dim % (2 ^ 8)])

\* linear_aabbtree::linear_aabbtree(tree), on a tree that is not being built.
\* Where an assertion of the flattening fails, the build with assertions
\* aborts and the build without them goes on with the nodes as converted.
Linearize ==
    /\ status \in { "idle", "built" }
    /\ linearized' = TRUE
    /\ IF root_ = Null
       THEN /\ nodes_' = <<>>
            /\ UNCHANGED << status, ndebug >>
       ELSE LET failed ==
                    \/ \E n \in Reach(root_) : ~ FlattenAsserts(n)
                    \/ Len(Flatten(root_, <<>>)) # total_branches_ + total_leaves_
            IN  \/ /\ failed
                   /\ ~ ndebug
                   /\ status' = "aborted"
                   /\ UNCHANGED << nodes_, ndebug >>
                \/ /\ \A n \in Reach(root_) :
                         heap[n].count = 0 =>
                            heap[n].left # Null /\ heap[n].right # Null
                   /\ nodes_' = Flatten(root_, <<>>)
                   /\ ndebug' = (ndebug \/ failed)
                   /\ UNCHANGED status
    /\ UNCHANGED << queue_vars, input, freed,
                    leaf_cutoff_, split_mode, root_, total_branches_,
                    total_leaves_, proxies_, allocated, heap, mutex,
                    total_branches, total_leaves, cursors, stacks, futures,
                    nthreads >>

(***************************************************************************)
(* Specification.                                                          *)
(***************************************************************************)
Step(t) ==
    \/ Lock(t)
    \/ Allocate(t)
    \/ InitLeaf(t)
    \/ ShiftFirstIndex(t)
    \/ SplitRange(t)
    \/ Spawn(t)
    \/ Wait(t)
    \/ InitBranch(t)

Next ==
    \/ InitCall
    \/ InitReturn
    \/ Clear
    \/ Linearize
    \/ \E t \in Threads : Step(t)

Spec == Init /\ [][Next]_vars

\* The tree used against the preconditions of its constructor and of init.
MisuseNext ==
    \/ MisuseInitCall
    \/ InitReturn
    \/ Clear
    \/ Linearize
    \/ \E t \in Threads : Step(t)

MisuseSpec == MisuseInit /\ [][MisuseNext]_vars

(***************************************************************************)
(* The split strategies on their own: a strategy is called once on a       *)
(* non-empty range [begin, end) of an array of proxies, with the boxes     *)
(* init_recursive computes for the range and any split dimension.          *)
(***************************************************************************)
SplitInit ==
    /\ leaf_cutoff_ = 0
    /\ split_mode \in SplitModes
    /\ root_ = Null
    /\ total_branches_ = 0
    /\ total_leaves_ = 0
    /\ input \in SplitInputs
    /\ freed = 0
    /\ linearized = FALSE
    /\ ndebug = FALSE
    /\ QueueConstructed
    /\ \E begin \in 0 .. MaxN, end \in 0 .. MaxN, split_dim \in Dims :
         /\ begin < end
         /\ end <= Len(input)
         /\ proxies_ = MakeProxies(input)
         /\ stacks =
              [t \in Threads |->
                 IF t = Main
                 THEN << [Frame(begin, end, 1) EXCEPT
                            !.pc = "call",
                            !.box = BoxOfProxies(
                                       SubSeq(MakeProxies(input), begin + 1, end)),
                            !.box_center = BoxOfCenters(
                                       SubSeq(MakeProxies(input), begin + 1, end)),
                            !.split_dim = split_dim] >>
                 ELSE <<>>]
    /\ allocated = {}
    /\ heap = <<>>
    /\ mutex = 0
    /\ total_branches = 0
    /\ total_leaves = 0
    /\ cursors = <<>>
    /\ futures = [t \in Threads |-> Null]
    /\ nthreads = 1
    /\ status = "split"
    /\ nodes_ = <<>>

\* Tsplit_mode()(box, box_center, split_dim, {begin, end})
SplitCall ==
    /\ status = "split"
    /\ LET f == stacks[Main][1]
       IN  /\ f.pc = "call"
           /\ \E r \in Split(split_mode, f.box, f.box_center, f.split_dim,
                             Range(f.begin, f.end)) :
                /\ proxies_' = PutRange(f.begin, r.proxies)
                /\ stacks' = [stacks EXCEPT ![Main] =
                                << [f EXCEPT !.split = f.begin + r.split,
                                             !.pc = "returned"] >>]
    /\ UNCHANGED << queue_vars, history, ndebug,
                    leaf_cutoff_, split_mode, root_, total_branches_,
                    total_leaves_, allocated, heap, mutex, total_branches,
                    total_leaves, cursors, futures, nthreads, status, nodes_ >>

SplitNext == SplitCall

SplitSpec == SplitInit /\ [][SplitNext]_vars

(***************************************************************************)
(* pr::static_queue, one action per member function.                       *)
(***************************************************************************)
\* What an element of arr_ may hold once its value has been moved from and
\* its destructor has run.
DeadValues == Values \cup { Default }

\* static_queue::size
QueueSize == top_ - bot_

\* static_queue::capacity
QueueCapacity == QueueN

\* static_queue::full
QueueFull == bot_ = 0 /\ top_ = QueueN

\* static_queue::empty
QueueEmpty == bot_ = top_

\* The outcome of a call.
Outcome(call, thrown, value) ==
    [call |-> call, thrown |-> thrown, value |-> value]

\* Mutant of PushThrows: push throws as soon as top_ has reached N.
PushThrows_Mutant(bot, top) == top >= QueueN

\* push: if (top_ >= N) { if (bot_ == 0) throw std::length_error
PushThrows(bot, top) == top >= QueueN /\ bot = 0

\* pop: if (bot_ == top_) throw std::runtime_error
PopThrows(bot, top) == bot = top

\* Mutant of ShiftDown: the loop starts one element below bot_.
ShiftDown_Mutant(arr, bot, top) ==
    { [i \in 1 .. QueueN |->
          IF i <= top - bot THEN arr[i + bot - 1]
          ELSE IF i > bot /\ i <= top THEN dead[i]
          ELSE arr[i]] : dead \in [1 .. QueueN -> DeadValues] }

\* push, the shift: the values of arr_[bot_ .. top_) are moved to
\* arr_[0 .. top_ - bot_) in ascending order and the elements moved from
\* are destroyed; an element destroyed and not assigned afterwards is dead.
ShiftDown(arr, bot, top) ==
    { [i \in 1 .. QueueN |->
          IF i <= top - bot THEN arr[i + bot]
          ELSE IF i > bot /\ i <= top THEN dead[i]
          ELSE arr[i]] : dead \in [1 .. QueueN -> DeadValues] }

\* static_queue::push(val)
Push ==
    /\ status = "queue"
    /\ \E val \in Values :
         IF PushThrows(bot_, top_)
         THEN /\ last' = Outcome("push", "length_error", val)
              /\ UNCHANGED << arr_, bot_, top_, fifo, shifted >>
         ELSE /\ IF top_ >= QueueN
                 THEN /\ \E shifted_arr \in ShiftDown(arr_, bot_, top_) :
                           arr_' = [shifted_arr EXCEPT ![top_ - bot_ + 1] = val]
                      /\ top_' = top_ - bot_ + 1
                      /\ bot_' = 0
                      /\ shifted' = TRUE
                 ELSE /\ arr_' = [arr_ EXCEPT ![top_ + 1] = val]
                      /\ top_' = top_ + 1
                      /\ UNCHANGED << bot_, shifted >>
              /\ fifo' = Append(fifo, val)
              /\ last' = Outcome("push", "none", val)
    /\ UNCHANGED << history, ndebug, leaf_cutoff_, split_mode, root_, total_branches_,
                    total_leaves_, proxies_, allocated, heap, mutex,
                    total_branches, total_leaves, cursors, stacks, futures,
                    nthreads, status, nodes_ >>

\* Mutant of Pop: bot_ and top_ are not reset when the queue becomes empty.
Pop_Mutant ==
    /\ status = "queue"
    /\ IF PopThrows(bot_, top_)
       THEN /\ last' = Outcome("pop", "runtime_error", Default)
            /\ UNCHANGED << arr_, bot_, top_, fifo, shifted >>
       ELSE /\ \E dead \in DeadValues : arr_' = [arr_ EXCEPT ![bot_ + 1] = dead]
            /\ bot_' = bot_ + 1
            /\ shifted' = IF bot_ + 1 = top_ THEN FALSE ELSE shifted
            /\ UNCHANGED top_
            /\ fifo' = IF fifo = <<>> THEN <<>> ELSE Tail(fifo)
            /\ last' = Outcome("pop", "none", arr_[bot_ + 1])
    /\ UNCHANGED << history, ndebug, leaf_cutoff_, split_mode, root_, total_branches_,
                    total_leaves_, proxies_, allocated, heap, mutex,
                    total_branches, total_leaves, cursors, stacks, futures,
                    nthreads, status, nodes_ >>

\* static_queue::pop
Pop ==
    /\ status = "queue"
    /\ IF PopThrows(bot_, top_)
       THEN /\ last' = Outcome("pop", "runtime_error", Default)
            /\ UNCHANGED << arr_, bot_, top_, fifo, shifted >>
       ELSE /\ \E dead \in DeadValues : arr_' = [arr_ EXCEPT ![bot_ + 1] = dead]
            /\ IF bot_ + 1 = top_
               THEN /\ bot_' = 0
                    /\ top_' = 0
                    /\ shifted' = FALSE
               ELSE /\ bot_' = bot_ + 1
                    /\ UNCHANGED << top_, shifted >>
            /\ fifo' = IF fifo = <<>> THEN <<>> ELSE Tail(fifo)
            /\ last' = Outcome("pop", "none", arr_[bot_ + 1])
    /\ UNCHANGED << history, ndebug, leaf_cutoff_, split_mode, root_, total_branches_,
                    total_leaves_, proxies_, allocated, heap, mutex,
                    total_branches, total_leaves, cursors, stacks, futures,
                    nthreads, status, nodes_ >>

\* static_queue::clear
QueueClear ==
    /\ status = "queue"
    /\ \E dead \in [1 .. QueueN -> DeadValues] :
         arr_' = [i \in 1 .. QueueN |->
                     IF i > bot_ /\ i <= top_ THEN dead[i] ELSE arr_[i]]
    /\ bot_' = 0
    /\ top_' = 0
    /\ fifo' = <<>>
    /\ shifted' = FALSE
    /\ last' = Outcome("clear", "none", Default)
    /\ UNCHANGED << history, ndebug, leaf_cutoff_, split_mode, root_, total_branches_,
                    total_leaves_, proxies_, allocated, heap, mutex,
                    total_branches, total_leaves, cursors, stacks, futures,
                    nthreads, status, nodes_ >>

\* A default-constructed queue; the tree is not used.
QueueInit ==
    /\ QueueConstructed
    /\ leaf_cutoff_ = 1
    /\ split_mode = "equal_counts"
    /\ root_ = Null
    /\ total_branches_ = 0
    /\ total_leaves_ = 0
    /\ proxies_ = <<>>
    /\ allocated = {}
    /\ heap = <<>>
    /\ mutex = 0
    /\ total_branches = 0
    /\ total_leaves = 0
    /\ cursors = <<>>
    /\ stacks = [t \in Threads |-> <<>>]
    /\ futures = [t \in Threads |-> Null]
    /\ nthreads = 0
    /\ status = "queue"
    /\ nodes_ = <<>>
    /\ input = <<>>
    /\ freed = 0
    /\ linearized = FALSE
    /\ ndebug = FALSE

QueueNext == Push \/ Pop \/ QueueClear

QueueSpec == QueueInit /\ [][QueueNext]_vars

(***************************************************************************)
(* The built tree.                                                         *)
(***************************************************************************)
\* init has returned on a non-empty input.
Built == status = "built" /\ root_ # Null

\* The nodes of the tree, its leaves (no children) and its branches.
TreeNodes == Reach(root_)
TreeLeaves == { n \in TreeNodes : heap[n].left = Null /\ heap[n].right = Null }
TreeBranches == TreeNodes \ TreeLeaves

RECURSIVE Preorder(_)
\* The nodes under node in left-first preorder.
Preorder(node) ==
    IF node = Null THEN <<>>
    ELSE << node >> \o Preorder(heap[node].left) \o Preorder(heap[node].right)

\* The leaves in left-first depth-first order.
LeafSeq ==
    SelectSeq(Preorder(root_),
              LAMBDA n : heap[n].left = Null /\ heap[n].right = Null)

RECURSIVE SumCounts(_)
SumCounts(S) ==
    IF S = {} THEN 0
    ELSE LET n == CHOOSE m \in S : TRUE
         IN  heap[n].count + SumCounts(S \ { n })

\* The proxy indices a leaf covers.
LeafIndices(n) ==
    heap[n].first_index .. (heap[n].first_index + heap[n].count - 1)

\* C1: after init on a non-empty input of n elements the leaves' ranges
\* [first_index, first_index + count) partition [0, n): every index below n
\* lies in exactly one of them, none reaches beyond n, the counts sum to n,
\* and init's cursor first_index ends at proxies_.size().
C1_LeavesPartition ==
    Built =>
        /\ \A i \in 0 .. (Len(proxies_) - 1) :
              Cardinality({ n \in TreeLeaves : i \in LeafIndices(n) }) = 1
        /\ \A n \in TreeLeaves : LeafIndices(n) \subseteq 0 .. (Len(proxies_) - 1)
        /\ SumCounts(TreeLeaves) = Len(proxies_)
        /\ cursors[1] = Len(proxies_)

\* A tree of three proxies with a leaf of two and a leaf of one.
C1_Witness ==
    /\ Built
    /\ Len(proxies_) = 3
    /\ Cardinality(TreeLeaves) = 2

\* No cursor variable is used by the calls of two running threads.
CursorsPrivate ==
    \A t, u \in Threads :
        (t # u /\ Running(t) /\ Running(u)) =>
            \A i \in DOMAIN stacks[t], j \in DOMAIN stacks[u] :
                stacks[t][i].cursor # stacks[u][j].cursor

\* A call that has not yet built its node finds its cursor at the start of
\* its range.
CursorAtBegin ==
    \A t \in Threads :
        (Running(t) /\ Top(t).pc \in { "lock", "allocate", "build" }) =>
            cursors[Top(t).cursor] = Top(t).begin

\* Each leaf starts where the previous one in depth-first order ends.
LeavesConsecutive ==
    /\ heap[LeafSeq[1]].first_index = 0
    /\ \A i \in 2 .. Len(LeafSeq) :
          heap[LeafSeq[i]].first_index =
              heap[LeafSeq[i - 1]].first_index + heap[LeafSeq[i - 1]].count

\* C2: with left subtrees built on async tasks, under every interleaving
\* the running threads never share a cursor variable, every call starts
\* with its cursor at the start of its range (the left task's from the copy
\* taken before the spawn, the right call's from the advance made before
\* it), and in the built tree the leaves, read in left-first depth-first
\* order, are consecutive.
C2_AsyncLeafOrder ==
    /\ CursorsPrivate
    /\ CursorAtBegin
    /\ Built => LeavesConsecutive

\* A tree of three leaves whose build ran a left subtree on a task.
C2_Witness ==
    /\ Built
    /\ nthreads >= 2
    /\ Len(LeafSeq) = 3

RECURSIVE Covered(_)
\* The proxies a node covers: a leaf those of the final array at
\* [first_index, first_index + count), a branch those of its two children.
Covered(node) ==
    IF node = Null THEN <<>>
    ELSE IF heap[node].left = Null /\ heap[node].right = Null
    THEN SubSeq(proxies_, heap[node].first_index + 1,
                heap[node].first_index + heap[node].count)
    ELSE Covered(heap[node].left) \o Covered(heap[node].right)

\* box is the smallest box around the boxes of the proxies of s: each face
\* bounds all of them and touches one.
TightAround(box, s) ==
    \A d \in Dims :
        /\ \A i \in DOMAIN s : box.lo[d] <= s[i].box.lo[d] /\ s[i].box.hi[d] <= box.hi[d]
        /\ \E i \in DOMAIN s : box.lo[d] = s[i].box.lo[d]
        /\ \E i \in DOMAIN s : box.hi[d] = s[i].box.hi[d]

\* C3: in a built tree the box of every node equals the union of the boxes
\* of the proxies the node covers.
C3_BoxesTight ==
    Built => \A n \in TreeNodes : TightAround(heap[n].box, Covered(n))

\* A tree whose root box is strictly larger than the boxes of both children.
C3_Witness ==
    /\ Built
    /\ TreeBranches # {}
    /\ heap[root_].box # heap[heap[root_].left].box
    /\ heap[root_].box # heap[heap[root_].right].box

\* C4: in a built tree every leaf holds at least one proxy and at most
\* leaf_cutoff_ proxies.
C4_LeafCounts ==
    Built => \A n \in TreeLeaves :
                 1 <= heap[n].count /\ heap[n].count <= leaf_cutoff_

\* A tree with a full leaf next to a smaller one.
C4_Witness ==
    /\ Built
    /\ leaf_cutoff_ = 2
    /\ \E n, m \in TreeLeaves : heap[n].count = 2 /\ heap[m].count = 1

\* C5: in a built tree every node is a branch (count = 0, both children) or
\* a leaf (count >= 1, no child).
C5_BranchOrLeaf ==
    Built => \A n \in TreeNodes :
                 \/ /\ heap[n].count = 0
                    /\ heap[n].left # Null
                    /\ heap[n].right # Null
                 \/ /\ heap[n].count >= 1
                    /\ heap[n].left = Null
                    /\ heap[n].right = Null

\* A tree with two branches.
C5_Witness ==
    /\ Built
    /\ Cardinality({ n \in TreeNodes : heap[n].count = 0 }) = 2

\* C6: after init the two totals are the numbers of branches and of leaves
\* of the tree, whatever the order of the concurrent increments, and a
\* non-empty tree has one branch less than it has leaves.
C6_TotalsMatch ==
    Built =>
        /\ total_branches_ = Cardinality(TreeBranches)
        /\ total_leaves_ = Cardinality(TreeLeaves)
        /\ total_branches_ = total_leaves_ - 1

\* Totals of a tree whose leaves were counted by two threads.
C6_Witness ==
    /\ Built
    /\ nthreads >= 2
    /\ total_leaves_ = 3
    /\ total_branches_ = 2

(***************************************************************************)
(* The split strategies.                                                   *)
(***************************************************************************)
\* The frame of the strategy call of SplitSpec, once it has returned.
SplitFrame == stacks[Main][1]
SplitReturned == status = "split" /\ SplitFrame.pc = "returned"

\* C7: on a range of at least two proxies each split strategy returns a
\* split strictly inside the range, begin < split < end.
C7_SplitInside ==
    (SplitReturned /\ SplitFrame.end - SplitFrame.begin >= 2) =>
        /\ SplitFrame.begin < SplitFrame.split
        /\ SplitFrame.split < SplitFrame.end

\* The surface-area strategy splitting three proxies two to one, where the
\* equal counts would be one to two.
C7_Witness ==
    /\ SplitReturned
    /\ split_mode = "surface_area"
    /\ SplitFrame.end - SplitFrame.begin = 3
    /\ SplitFrame.split = SplitFrame.begin + 2

\* All centers of the range agree along the split dimension.
CentersCoincide(f) ==
    \A i, j \in (f.begin + 1) .. f.end :
        proxies_[i].box_center[f.split_dim] = proxies_[j].box_center[f.split_dim]

SplitOriginal == MakeProxies(input)

\* The positions of the range of f in proxies_, counted from one.
SplitPositions(f) == (f.begin + 1) .. f.end

\* The strategy has only permuted the proxies of its range.
OnlyRangePermuted(f) ==
    /\ Len(proxies_) = Len(SplitOriginal)
    /\ \A i \in 1 .. Len(proxies_) :
          i \notin SplitPositions(f) => proxies_[i] = SplitOriginal[i]
    /\ { proxies_[i] : i \in SplitPositions(f) }
          = { SplitOriginal[i] : i \in SplitPositions(f) }

\* The split of f is the equal-count one: the middle of the range, with no
\* center before it greater along split_dim than a center at or after it.
EqualCountResult(f) ==
    /\ f.split = f.begin + (f.end - f.begin) \div 2
    /\ \A i, j \in SplitPositions(f) :
          (i <= f.split /\ f.split < j) =>
              proxies_[i].box_center[f.split_dim]
                  <= proxies_[j].box_center[f.split_dim]

\* C18: the equal-count strategy returns begin + floor(size / 2) and
\* arranges the range so that the center of every proxy before the split
\* is, along split_dim, at most the center of every proxy at or after it;
\* it only permutes the proxies of the range.
C18_EqualCounts ==
    (SplitReturned /\ split_mode = "equal_counts") =>
        /\ EqualCountResult(SplitFrame)
        /\ OnlyRangePermuted(SplitFrame)

\* The equal-count strategy has rearranged a range of three proxies whose
\* centers differ along split_dim.
C18_Witness ==
    /\ SplitReturned
    /\ split_mode = "equal_counts"
    /\ SplitFrame.end - SplitFrame.begin = 3
    /\ ~ CentersCoincide(SplitFrame)
    /\ proxies_ # SplitOriginal

\* The positions of the range whose proxy, before the call, has its center
\* strictly below the midpoint (min + max) / 2 of box_center along
\* split_dim.
BelowMidpoint(f) ==
    { i \in SplitPositions(f) :
        2 * SplitOriginal[i].box_center[f.split_dim]
            < f.box_center.lo[f.split_dim] + f.box_center.hi[f.split_dim] }

\* C19: the equal-dimension strategy puts exactly the proxies whose center
\* is strictly below the midpoint of the box of centers before the split,
\* unless that leaves a side empty, and exactly then it returns the
\* equal-count result.
C19_EqualDimensions ==
    (SplitReturned /\ split_mode = "equal_dimensions") =>
        LET f == SplitFrame
            below == Cardinality(BelowMidpoint(f))
        IN  /\ OnlyRangePermuted(f)
            /\ IF below # 0 /\ below # f.end - f.begin
               THEN /\ f.split = f.begin + below
                    /\ \A i \in SplitPositions(f) :
                          (i <= f.split) <=>
                              (2 * proxies_[i].box_center[f.split_dim]
                                  < f.box_center.lo[f.split_dim]
                                      + f.box_center.hi[f.split_dim])
               ELSE EqualCountResult(f)

\* The equal-dimension strategy on three proxies one of which has its
\* center at the midpoint: that one goes right with the largest.
C19_Witness ==
    /\ SplitReturned
    /\ split_mode = "equal_dimensions"
    /\ SplitFrame.end - SplitFrame.begin = 3
    /\ \E i \in SplitPositions(SplitFrame) :
          2 * proxies_[i].box_center[SplitFrame.split_dim]
              = SplitFrame.box_center.lo[SplitFrame.split_dim]
                  + SplitFrame.box_center.hi[SplitFrame.split_dim]
    /\ SplitFrame.split = SplitFrame.begin + 1

\* The bin of proxy p in the range of f:
\* min(floor(Nbins * (c - cmin) / (cmax - cmin)), Nbins - 1).
ClaimedBin(f, p) ==
    LET c == p.box_center[f.split_dim]
        cmin == f.box_center.lo[f.split_dim]
        cmax == f.box_center.hi[f.split_dim]
        scaled == (Nbins * (c - cmin)) \div (cmax - cmin)
    IN  IF scaled < Nbins - 1 THEN scaled ELSE Nbins - 1

\* The proxies of the range of f, before the call, in bins lo .. hi.
ClaimedSide(f, lo, hi) ==
    { p \in { SplitOriginal[i] : i \in SplitPositions(f) } :
        lo <= ClaimedBin(f, p) /\ ClaimedBin(f, p) <= hi }

\* The smallest box around the boxes of a non-empty set of proxies.
BoxAround(S) ==
    Box([d \in Dims |-> CHOOSE x \in { p.box.lo[d] : p \in S } :
                           \A p \in S : x <= p.box.lo[d]],
        [d \in Dims |-> CHOOSE x \in { p.box.hi[d] : p \in S } :
                           \A p \in S : p.box.hi[d] <= x])

\* The cost of candidate k:
\* leftSurfaceArea * leftCount + rightSurfaceArea * rightCount.
ClaimedCost(f, k) ==
    LET left == ClaimedSide(f, 0, k)
        right == ClaimedSide(f, k + 1, Nbins - 1)
    IN  (IF left = {} THEN 0
         ELSE BoxSurfaceArea(BoxAround(left)) * Cardinality(left))
        + (IF right = {} THEN 0
           ELSE BoxSurfaceArea(BoxAround(right)) * Cardinality(right))

\* The first candidate of the least cost.
ClaimedBest(f) ==
    CHOOSE k \in 0 .. (Nbins - 2) :
        /\ \A j \in 0 .. (Nbins - 2) : ClaimedCost(f, k) <= ClaimedCost(f, j)
        /\ \A j \in 0 .. (k - 1) : ClaimedCost(f, k) < ClaimedCost(f, j)

\* C20: on a range with extent along split_dim the surface-area strategy
\* bins the proxies by min(floor(Nbins * (c - cmin) / (cmax - cmin)),
\* Nbins - 1); for every candidate k in 0 .. Nbins - 2 the left set (bins
\* 0 .. k) and the right set (bins k + 1 .. Nbins - 1) together hold the
\* whole range; the strategy takes the first k of the least cost and puts
\* exactly the proxies of bins 0 .. k before the split.
C20_SurfaceArea ==
    (/\ SplitReturned
     /\ split_mode = "surface_area"
     /\ SplitFrame.box_center.lo[SplitFrame.split_dim]
           < SplitFrame.box_center.hi[SplitFrame.split_dim]) =>
        LET f == SplitFrame
            best == ClaimedBest(f)
        IN  /\ \A k \in 0 .. (Nbins - 2) :
                  Cardinality(ClaimedSide(f, 0, k))
                      + Cardinality(ClaimedSide(f, k + 1, Nbins - 1))
                      = f.end - f.begin
            /\ f.split = f.begin + Cardinality(ClaimedSide(f, 0, best))
            /\ \A i \in SplitPositions(f) :
                  (i <= f.split) <=> (ClaimedBin(f, proxies_[i]) <= best)

\* The surface-area strategy on three proxies in three bins, where the
\* least cost is that of a candidate beyond the first and puts the two
\* lower bins left.
C20_Witness ==
    /\ SplitReturned
    /\ split_mode = "surface_area"
    /\ SplitFrame.end - SplitFrame.begin = 3
    /\ SplitFrame.box_center.lo[SplitFrame.split_dim]
          < SplitFrame.box_center.hi[SplitFrame.split_dim]
    /\ Cardinality({ ClaimedBin(SplitFrame, proxies_[i]) :
                        i \in SplitPositions(SplitFrame) }) = 3
    /\ ClaimedBest(SplitFrame) > 0
    /\ SplitFrame.split = SplitFrame.begin + 2

(***************************************************************************)
(* The empty state, clear and re-initialization.                           *)
(***************************************************************************)
\* The empty state of the tree.
EmptyTree ==
    /\ root_ = Null
    /\ total_branches_ = 0
    /\ total_leaves_ = 0
    /\ proxies_ = <<>>

\* The address &nodes_[0] of the storage of a non-empty nodes_.
NodesData == 1

\* linear_aabbtree::size, begin, end
LinearSize == Len(nodes_)
LinearBegin == IF nodes_ = <<>> THEN Null ELSE NodesData
LinearEnd == IF nodes_ = <<>> THEN Null ELSE NodesData + Len(nodes_)

\* C11: init on an empty input range leaves the tree in the empty state,
\* whatever it held before: root_ is null, both totals are 0 and proxies_ is
\* empty; a linear tree constructed from it has size 0 and begin and end
\* both null.
C11_EmptyInit ==
    (status = "built" /\ input = <<>>) =>
        /\ EmptyTree
        /\ linearized =>
              /\ LinearSize = 0
              /\ LinearBegin = Null
              /\ LinearEnd = Null

\* init on an empty input has discarded a tree of at least three nodes, and
\* a linear tree has been constructed from the result.
C11_Witness ==
    /\ status = "built"
    /\ input = <<>>
    /\ freed >= 3
    /\ linearized

\* No element occurs twice in s.
NoDuplicates(s) == \A i, j \in 1 .. Len(s) : s[i] = s[j] => i = j

\* Every proxy is made of the element of the input its value_index names.
ProxiesOfInput ==
    /\ Len(proxies_) = Len(input)
    /\ \A i \in 1 .. Len(proxies_) :
          /\ proxies_[i].value_index \in 0 .. (Len(input) - 1)
          /\ proxies_[i].box = input[proxies_[i].value_index + 1]
          /\ proxies_[i].box_center =
                [d \in Dims |->
                    (input[proxies_[i].value_index + 1].lo[d]
                         + input[proxies_[i].value_index + 1].hi[d]) \div 2]

\* init has cleared the tree and made the proxies of its input, and
\* init_recursive has not taken a step.
BuildBegins ==
    /\ status = "building"
    /\ nthreads = 1
    /\ stacks[Main] = << Frame(0, Len(proxies_), 1) >>

\* C12: whenever no build is in progress, after any sequence of init and
\* clear calls, the nodes allocated and not deallocated are exactly the
\* nodes under root_, deallocate_recursive would deallocate each of them
\* once, and the proxies are those of the latest input and no others; when
\* init begins to build, no node of the previous build is left allocated.
C12_NoLeakNoDoubleFree ==
    /\ BuildBegins =>
          /\ allocated = {}
          /\ DOMAIN heap = {}
          /\ root_ = Null
          /\ ProxiesOfInput
    /\ status \in { "idle", "built" } =>
        /\ allocated = { Preorder(root_)[i] : i \in 1 .. Len(Preorder(root_)) }
        /\ DOMAIN heap = allocated
        /\ NoDuplicates(DeallocateCalls(root_))
        /\ \A i \in 1 .. Len(DeallocateCalls(root_)) :
              DeallocateCalls(root_)[i] \in allocated
        /\ ProxiesOfInput

\* init on an input of at least two elements has discarded a tree of at
\* least three nodes.
C12_Witness ==
    /\ BuildBegins
    /\ freed >= 3
    /\ Len(proxies_) >= 2
    /\ allocated = {}

\* C13: clear yields the empty state, clear on an empty tree changes
\* nothing of the tree, and no step changes leaf_cutoff_.
C13_ClearIdempotent ==
    [][ /\ Clear => EmptyTree'
        /\ (Clear /\ EmptyTree) =>
              UNCHANGED << root_, total_branches_, total_leaves_, proxies_,
                           allocated, heap >>
        /\ leaf_cutoff_' = leaf_cutoff_ ]_vars

\* clear has been called on a tree that a clear after a build had emptied
\* already: the latest clear found no node to deallocate.
C13_Witness ==
    /\ status = "idle"
    /\ cursors # <<>>
    /\ freed = 0
    /\ EmptyTree

(***************************************************************************)
(* The proxies.                                                            *)
(***************************************************************************)
\* init has made the proxies and no call of init_recursive has gone beyond
\* allocating its node.
ProxiesJustMade ==
    /\ status = "building"
    /\ nthreads = 1
    /\ Len(stacks[Main]) = 1
    /\ stacks[Main][1].pc \in { "lock", "allocate", "build" }

\* C14: init makes one proxy per input element, with value_index the
\* position of the element counted from zero; throughout the build and
\* after it the value_index of the proxies are a permutation of 0 .. n - 1
\* and each proxy carries the box and the center of its input element.
C14_ProxiesPermuted ==
    /\ ProxiesJustMade =>
          /\ Len(proxies_) = Len(input)
          /\ \A i \in 1 .. Len(proxies_) : proxies_[i].value_index = i - 1
    /\ status \in { "building", "built" } =>
          /\ ProxiesOfInput
          /\ { proxies_[i].value_index : i \in 1 .. Len(proxies_) }
                = 0 .. (Len(input) - 1)

\* A built tree of three proxies whose first proxy is not the first input
\* element.
C14_Witness ==
    /\ Built
    /\ Len(proxies_) = 3
    /\ proxies_[1].value_index # 0

(***************************************************************************)
(* Leaves and the leaf cutoff.                                             *)
(***************************************************************************)
\* The number of proxies under a node.
ProxiesUnder(node) == SumCounts(Reach(node) \cap TreeLeaves)

\* C15: the tree of an input of 1 <= n <= leaf_cutoff_ elements is one
\* leaf with first_index 0 and count n, with no branch and one leaf in the
\* totals; every branch of a built tree covers more than leaf_cutoff_
\* proxies.
C15_SingleLeaf ==
    Built =>
        /\ (1 <= Len(input) /\ Len(input) <= leaf_cutoff_) =>
              /\ TreeNodes = { root_ }
              /\ heap[root_].left = Null
              /\ heap[root_].right = Null
              /\ heap[root_].first_index = 0
              /\ heap[root_].count = Len(input)
              /\ total_branches_ = 0
              /\ total_leaves_ = 1
        /\ \A b \in TreeBranches : ProxiesUnder(b) > leaf_cutoff_

\* The tree of two elements under a leaf cutoff of two.
C15_Witness ==
    /\ Built
    /\ Len(input) = 2
    /\ leaf_cutoff_ = 2
    /\ TreeNodes = { root_ }
    /\ heap[root_].count = 2

(***************************************************************************)
(* The static queue.                                                       *)
(***************************************************************************)
\* The values the queue holds, from the bottom to the top.
QueueContents == [i \in 1 .. (top_ - bot_) |-> arr_[bot_ + i]]

\* C16: the queue is first-in first-out.  It holds the values pushed and
\* not yet popped in the order of the pushes, the push that moves the
\* values down included, size() is the number of successful pushes less
\* the number of successful pops, and every successful pop returns the
\* oldest value pushed and not yet popped.
C16_Fifo ==
    /\ [](status = "queue" =>
             /\ QueueContents = fifo
             /\ QueueSize = Len(fifo))
    /\ [][(last'.call = "pop" /\ last'.thrown = "none") =>
             /\ fifo # <<>>
             /\ last'.value = Head(fifo)
             /\ fifo' = Tail(fifo)]_vars

\* pop has returned a value from a queue whose values a push had moved
\* down, and two different values are still queued.
C16_Witness ==
    /\ status = "queue"
    /\ last.call = "pop"
    /\ last.thrown = "none"
    /\ shifted
    /\ Len(fifo) = 2
    /\ fifo[1] # fifo[2]

\* C17: push throws std::length_error exactly when size() = N and succeeds
\* whenever size() < N, pop throws std::runtime_error exactly when the
\* queue is empty, and a call that throws leaves arr_, bot_ and top_ as
\* they were.
C17_Throws ==
    [][ /\ last'.call = "push" =>
              /\ last'.thrown \in { "none", "length_error" }
              /\ (last'.thrown = "length_error") <=> (top_ - bot_ = QueueN)
              /\ last'.thrown = "length_error" =>
                    UNCHANGED << arr_, bot_, top_ >>
              /\ last'.thrown = "none" =>
                    /\ top_' - bot_' = top_ - bot_ + 1
                    /\ arr_'[top_'] = last'.value
        /\ last'.call = "pop" =>
              /\ last'.thrown \in { "none", "runtime_error" }
              /\ (last'.thrown = "runtime_error") <=> (top_ - bot_ = 0)
              /\ last'.thrown = "runtime_error" =>
                    UNCHANGED << arr_, bot_, top_ >>
              /\ last'.thrown = "none" =>
                    top_' - bot_' = top_ - bot_ - 1 ]_vars

\* push has thrown on a full queue whose values an earlier push had moved
\* down.
C17_Witness ==
    /\ status = "queue"
    /\ last.call = "push"
    /\ last.thrown = "length_error"
    /\ shifted
    /\ top_ - bot_ = QueueN

(***************************************************************************)
(* Termination of init.                                                    *)
(***************************************************************************)
\* C9: for every non-empty input and every leaf cutoff the constructor
\* accepts, init runs to completion: no build dies on a failed assertion
\* and none recurses without end.
C9_InitTerminates == status \notin { "aborted", "overflow" }

(***************************************************************************)
(* The linearized tree.                                                    *)
(***************************************************************************)
\* C10: the linear tree of a built tree has total_branches_ + total_leaves_
\* nodes, and its i-th node has the box, the kind and, for a leaf, the
\* first_index and count of the i-th node of the tree in left-first
\* preorder.
C10_LinearIsPreorder ==
    (Built /\ nodes_ # <<>>) =>
        /\ Len(nodes_) = total_branches_ + total_leaves_
        /\ Len(nodes_) = Len(Preorder(root_))
        /\ \A i \in 1 .. Len(Preorder(root_)) :
              LET n == heap[Preorder(root_)[i]]
              IN  /\ i <= Len(nodes_)
                  /\ nodes_[i].box = n.box
                  /\ (nodes_[i].count = 0) <=> (n.count = 0)
                  /\ n.count # 0 =>
                        /\ nodes_[i].first_index = n.first_index
                        /\ nodes_[i].count = n.count

\* The linear tree of a tree of two branches and three leaves.
C10_Witness ==
    /\ Built
    /\ Len(nodes_) = 5
    /\ total_branches_ = 2

(***************************************************************************)
(* The async task of init_recursive.                                       *)
(***************************************************************************)
\* The calls of init_recursive in progress: a thread and a depth of its
\* stack.
Calls == { c \in Threads \X (1 .. (2 * MaxN)) : c[2] <= Len(stacks[c[1]]) }

\* The frame of a call in progress.
FrameOf(c) == stacks[c[1]][c[2]]

\* The call has built, or is building, its left subtree on an async task.
BuildsLeftAsync(f) == f.pc = "spawn" \/ f.future # 0

\* The call has built, or is building, its left subtree itself.
BuildsLeftItself(f) ==
    \/ f.pc = "in_left"
    \/ f.pc \in { "in_right", "branch" } /\ f.future = 0

\* The node has been written as a branch.
WrittenBranch(n) ==
    n \in DOMAIN heap /\ (heap[n].left # Null \/ heap[n].right # Null)

\* C21: in init_recursive the left subtree is built on an async task if and
\* only if the range holds more proxies than the threshold (16384 in the
\* source, AsyncThreshold here); the call writes its node only after the
\* task has returned and with the node the task returned, every branch that
\* has been written has children that have been written, and when init has
\* returned no call is in progress on any thread and every node under root_
\* has been written.
C21_AsyncJoined ==
    /\ status = "building" =>
          \A c \in Calls :
             LET f == FrameOf(c)
             IN  /\ BuildsLeftAsync(f) => f.end - f.begin > AsyncThreshold
                 /\ BuildsLeftItself(f) => f.end - f.begin <= AsyncThreshold
                 /\ (f.pc = "branch" /\ f.future # 0) =>
                       /\ stacks[f.future] = <<>>
                       /\ f.left = futures[f.future]
                 /\ f.pc = "branch" =>
                       /\ f.left \in DOMAIN heap
                       /\ f.right \in DOMAIN heap
    /\ status \in { "building", "built" } =>
          \A n \in DOMAIN heap :
             WrittenBranch(n) =>
                /\ heap[n].left \in DOMAIN heap
                /\ heap[n].right \in DOMAIN heap
    /\ status = "built" =>
          /\ \A t \in Threads : stacks[t] = <<>>
          /\ Reach(root_) \subseteq DOMAIN heap

\* A tree whose root built its left subtree on an async task and whose other
\* branch built both subtrees itself.
C21_Witness ==
    /\ Built
    /\ nthreads = 2
    /\ Cardinality(TreeBranches) = 2
    /\ Len(proxies_) > AsyncThreshold

(***************************************************************************)
(* The node allocator.                                                     *)
(***************************************************************************)
\* The threads inside allocate(), between the lock and the return.
InAllocator ==
    { t \in Threads : stacks[t] # <<>> /\ Top(t).pc = "allocate" }

\* The calls in progress that allocate() has returned a node to.
HoldingNode == { c \in Calls : FrameOf(c).node # Null }

HasSplit(f) == f.pc \in { "spawn", "in_left", "in_right", "wait", "branch" }

\* The call has yet to read, and if it is a branch to permute, its range.
YetToAccess(f) == f.pc \in { "lock", "allocate", "build" }

\* The range of g lies on one side of the split of f.
OnOneSide(f, g) ==
    \/ f.begin <= g.begin /\ g.end <= f.split
    \/ f.split <= g.begin /\ g.end <= f.end

\* The ranges of f and g have no position in common.
Disjoint(f, g) == f.end <= g.begin \/ g.end <= f.begin

\* The positions of proxies_ a step changes.
Changed == { i \in 1 .. Len(proxies_) : proxies_'[i] # proxies_[i] }

\* C23: during a build any two calls of init_recursive in progress have
\* disjoint ranges, unless one of them has performed its split and the
\* other works on one side of that split; so the calls that have yet to
\* access their proxies, on whatever threads, have pairwise disjoint
\* ranges.  A call made by a call starts on a side of its caller's split,
\* the async one on {proxies.begin(), split}.  A step of a build changes
\* proxies only inside the range of a call that is at its split.
C23_DisjointRanges ==
    /\ [](status = "building" =>
             /\ \A c, d \in Calls :
                   c # d =>
                      \/ Disjoint(FrameOf(c), FrameOf(d))
                      \/ HasSplit(FrameOf(c)) /\ OnOneSide(FrameOf(c), FrameOf(d))
                      \/ HasSplit(FrameOf(d)) /\ OnOneSide(FrameOf(d), FrameOf(c))
             /\ \A c, d \in Calls :
                   (c # d /\ YetToAccess(FrameOf(c)) /\ YetToAccess(FrameOf(d)))
                      => Disjoint(FrameOf(c), FrameOf(d))
             /\ \A c \in Calls :
                   c[2] > 1 =>
                      LET f == stacks[c[1]][c[2] - 1]
                          g == FrameOf(c)
                      IN  \/ /\ f.pc = "in_left"
                             /\ g.begin = f.begin /\ g.end = f.split
                          \/ /\ f.pc = "in_right"
                             /\ g.begin = f.split /\ g.end = f.end
             /\ \A u \in Threads \ { Main } :
                   stacks[u] # <<>> =>
                      \E c \in Calls :
                         /\ FrameOf(c).future = u
                         /\ FrameOf(c).pc \in { "in_right", "wait" }
                         /\ stacks[u][1].begin = FrameOf(c).begin
                         /\ stacks[u][1].end = FrameOf(c).split)
    /\ [][(status = "building" /\ Changed # {}) =>
             \E t \in Threads :
                /\ At(t, "build")
                /\ Changed \subseteq SplitPositions(Top(t))]_vars

\* Two threads are each about to work on a range, one of them on a range
\* it is going to split.
C23_Witness ==
    /\ status = "building"
    /\ \E t, u \in Threads :
          /\ t # u
          /\ At(t, "build")
          /\ At(u, "build")
          /\ ~ IsLeafRange(Top(t).end - Top(t).begin)

(***************************************************************************)
(* The layout of the linear tree.                                          *)
(***************************************************************************)
\* The number of nodes of the subtree of the pointer tree under node.
SubtreeSize(node) == Len(Preorder(node))

\* C24: in the linear tree of a built tree the node at index i - 1 is the
\* i-th node of the pointer tree in preorder; for a branch there the left
\* child is the next node of the array, right_offset is 1 + the number of
\* nodes of the left subtree, the node right_offset further on is the right
\* child, and both are inside the array; the subtree of every node occupies
\* the consecutive indices from the node's on, as many as it has nodes.
C24_LinearLayout ==
    (Built /\ linearized) =>
        LET P == Preorder(root_)
        IN  /\ Len(nodes_) = Len(P)
            /\ \A i \in 1 .. Len(P) :
                  LET n == heap[P[i]]
                      size == SubtreeSize(P[i])
                  IN  /\ i + size - 1 <= Len(nodes_)
                      /\ SubSeq(P, i, i + size - 1) = Preorder(P[i])
                      /\ n.left # Null =>
                            /\ nodes_[i].count = 0
                            /\ i + 1 <= Len(nodes_)
                            /\ P[i + 1] = n.left
                            /\ nodes_[i].right_offset = 1 + SubtreeSize(n.left)
                            /\ i + nodes_[i].right_offset <= Len(nodes_)
                            /\ P[i + nodes_[i].right_offset] = n.right

\* The linear tree of a tree whose root has a branch as its left child: the
\* right child of that branch is 2 nodes further on, at index 3.
C24_Witness ==
    /\ Built
    /\ linearized
    /\ Len(nodes_) = 5
    /\ nodes_[1].right_offset = 4
    /\ nodes_[2].count = 0
    /\ nodes_[2].right_offset = 2

(***************************************************************************)
(* The count field of the linear node.                                     *)
(***************************************************************************)
\* linear_aabbtree::node_type::is_branch
IsBranch(node) == node.count = 0

\* C25: every leaf count of a built tree is below the number of values of
\* the linear node's count field (256 in the source, CountLimit here), so
\* the linear leaf holds the count of the pointer leaf, which is not zero,
\* and is_branch() of a linear node is true exactly if the node of the
\* pointer tree at its place is a branch.
C25_CountFits ==
    (Built /\ linearized) =>
        /\ Len(nodes_) = Len(Preorder(root_))
        /\ \A i \in 1 .. Len(Preorder(root_)) :
              LET n == heap[Preorder(root_)[i]]
              IN  /\ n.count < CountLimit
                  /\ n.left = Null =>
                        /\ nodes_[i].count = n.count
                        /\ nodes_[i].count # 0
                  /\ IsBranch(nodes_[i]) <=> (n.left # Null /\ n.right # Null)

\* The linear tree of a tree with a leaf of the largest count the field
\* holds, built with the largest cutoff the constructor accepts, and with a
\* branch.
C25_Witness ==
    /\ Built
    /\ linearized
    /\ leaf_cutoff_ = CountLimit - 1
    /\ IsBranch(nodes_[1])
    /\ \E i \in 1 .. Len(nodes_) : nodes_[i].count = CountLimit - 1

(***************************************************************************)
(* Violated preconditions.                                                 *)
(***************************************************************************)
\* The leaf_cutoff_ is one the constructor's precondition excludes.
CutoffTooLarge == leaf_cutoff_ >= CountLimit

\* The box does not have its lower corner strictly below its upper corner
\* in every dimension.
Degenerate(box) == \E d \in Dims : box.lo[d] >= box.hi[d]

\* The elements of the latest input that init's precondition excludes.
Rejected == { i \in 1 .. Len(input) : Degenerate(input[i]) }

\* The first of them.
FirstRejected == CHOOSE i \in Rejected : \A j \in Rejected : i <= j

\* The program has died on the constructor's assertion: nothing has been
\* built or stored.
ConstructorFailed ==
    /\ status = "aborted"
    /\ root_ = Null
    /\ input = <<>>
    /\ proxies_ = <<>>

\* The program has died on init's assertion on the first rejected element:
\* there is no tree, and the proxies are those of the elements before it.
InitFailed ==
    /\ status = "aborted"
    /\ root_ = Null
    /\ allocated = {}
    /\ proxies_ = MakeProxies(SubSeq(input, 1, FirstRejected - 1))

\* C26, as stated: a violated precondition is reported as an assertion
\* failure and never yields a tree.  A tree constructed with a leaf_cutoff
\* the constructor rejects (256 or more in the source, CountLimit or more
\* here) has failed the constructor's assertion, and init on an input with
\* an element whose box is not lower < upper in every dimension has failed
\* its assertion on the first such element.
C26_Reported ==
    /\ CutoffTooLarge => ConstructorFailed
    /\ (~ CutoffTooLarge /\ Rejected # {}) => InitFailed

\* C26, amended: the same in a build with assertions, that is unless the
\* build is one in which a failed assertion lets the program go on
\* (NDEBUG defined).  Every violation of the two preconditions meets its
\* assertion.
C26_ReportedWithAssertions ==
    /\ CutoffTooLarge => (ConstructorFailed \/ ndebug)
    /\ (~ CutoffTooLarge /\ Rejected # {}) => (InitFailed \/ ndebug)

\* init has died on the assertion on the second element of its input, the
\* first one being accepted and made a proxy, in a tree that had been built
\* before.
C26_Witness ==
    /\ status = "aborted"
    /\ ~ ndebug
    /\ ~ CutoffTooLarge
    /\ Len(input) >= 2
    /\ FirstRejected = 2
    /\ Len(proxies_) = 1
    /\ freed >= 1

(***************************************************************************)
(* The build without async tasks.                                          *)
(***************************************************************************)
RECURSIVE TreeOf(_)
\* The tree under node as a value: what its nodes hold, with the subtrees
\* in the place of the pointers to them.
TreeOf(node) ==
    IF node = Null THEN Null
    ELSE [ box |-> heap[node].box,
           left |-> TreeOf(heap[node].left),
           right |-> TreeOf(heap[node].right),
           split_dim |-> heap[node].split_dim,
           first_index |-> heap[node].first_index,
           count |-> heap[node].count ]

RECURSIVE Sequential(_, _)
\* init_recursive on the proxies s with the cursor at first_index, every
\* call taking the branch of count <= 16384: the left range, then the
\* right range, on one thread and with the one cursor.  The results are
\* the trees as values, with the proxies as rearranged, the cursor and the
\* counters as the call leaves them, one result for every arrangement the
\* split strategy may produce.
Sequential(s, first_index) ==
    LET count == Len(s)
        box == BoxOfProxies(s)
        box_center == BoxOfCenters(s)
        split_dim == ArgMax(BoxDiag(box_center))
    IN  IF IsLeafRange(count)
        THEN { [ tree |-> LeafNode(box, first_index, count),
                 proxies |-> s,
                 first_index |-> Shifted(first_index, count),
                 total_branches |-> 0,
                 total_leaves |-> Incremented(0) ] }
        ELSE UNION {
               UNION {
                 { [ tree |-> BranchNode(box, l.tree, r.tree, split_dim),
                     proxies |-> l.proxies \o r.proxies,
                     first_index |-> r.first_index,
                     total_branches |->
                         Incremented(l.total_branches + r.total_branches),
                     total_leaves |-> l.total_leaves + r.total_leaves ] :
                   r \in Sequential(SubSeq(sp.proxies, sp.split + 1, count),
                                    l.first_index) } :
                 l \in Sequential(SubSeq(sp.proxies, 1, sp.split), first_index) } :
               sp \in { x \in Split(split_mode, box, box_center, split_dim, s) :
                           x.split > 0 /\ x.split < count } }

\* C27: the tree a build with async tasks produces is a tree the build
\* without them produces from the same input with the same split strategy:
\* the same shape, boxes, split_dim, leaf first_index and count, the same
\* final order of the proxies, the same totals and the same final cursor,
\* whatever the interleaving of the tasks.
C27_SameAsSequential ==
    (Built /\ input # <<>>) =>
        [ tree |-> TreeOf(root_),
          proxies |-> proxies_,
          first_index |-> cursors[1],
          total_branches |-> total_branches_,
          total_leaves |-> total_leaves_ ]
            \in Sequential(MakeProxies(input), 0)

\* A tree built by two threads, with a branch under the root, whose
\* proxies are not in the order of the input.
C27_Witness ==
    /\ Built
    /\ nthreads >= 2
    /\ total_branches_ >= 2
    /\ proxies_ # MakeProxies(input)

(***************************************************************************)
(* The sides of the surface-area split.                                    *)
(***************************************************************************)
\* The proxies of s the predicate of std::partition accepts: those in the
\* bins up to costs_argmin.
AcceptedLeft(box_center, split_dim, s) ==
    { s[i] : i \in { j \in 1 .. Len(s) :
                        BinPos(box_center, split_dim, s[j])
                            <= CostsArgMin(box_center, split_dim, s) } }

\* C28: when the surface-area strategy has been called on a range whose
\* centers have an extent along split_dim, a proxy of least center is in bin 0 and one of
\* greatest center in bin Nbins - 1, so that every candidate has at least
\* one proxy in its left sweep and one in its right sweep, std::partition
\* on the chosen candidate leaves neither side empty under any arrangement,
\* and the strategy returns the result of that partition: the fallback to
\* equal counts after the partition is never taken.
C28_NoEmptySide ==
    (/\ SplitReturned
     /\ split_mode = "surface_area"
     /\ SplitFrame.box_center.lo[SplitFrame.split_dim]
           < SplitFrame.box_center.hi[SplitFrame.split_dim]) =>
        LET f == SplitFrame
            bc == f.box_center
            d == f.split_dim
            s == Range(f.begin, f.end)
        IN  /\ \E i \in 1 .. Len(s) :
                  /\ s[i].box_center[d] = bc.lo[d]
                  /\ BinPos(bc, d, s[i]) = 0
            /\ \E i \in 1 .. Len(s) :
                  /\ s[i].box_center[d] = bc.hi[d]
                  /\ BinPos(bc, d, s[i]) = Nbins - 1
            /\ \A k \in 0 .. (Nbins - 2) :
                  /\ LSweep(bc, d, s, k).second >= 1
                  /\ RSweep(bc, d, s, k).second >= 1
            /\ \A r \in Partition(s, AcceptedLeft(bc, d, s)) :
                  r.split # 0 /\ r.split # Len(s)
            /\ f.split - f.begin = Cardinality(AcceptedLeft(bc, d, s))
            /\ f.begin < f.split
            /\ f.split < f.end

\* The strategy has returned, on three proxies two of which share bin 0,
\* a split that is not the one of equal counts.
C28_Witness ==
    /\ SplitReturned
    /\ split_mode = "surface_area"
    /\ SplitFrame.end - SplitFrame.begin = 3
    /\ SplitFrame.box_center.lo[SplitFrame.split_dim]
          < SplitFrame.box_center.hi[SplitFrame.split_dim]
    /\ Len(InBins(SplitFrame.box_center, SplitFrame.split_dim,
                  Range(SplitFrame.begin, SplitFrame.end), 0, 0)) = 2
    /\ SplitFrame.split = SplitFrame.begin + 2

(***************************************************************************)
(* What a split strategy changes.                                          *)
(***************************************************************************)
\* The number of times p occurs in s.
Occurrences(s, p) == Cardinality({ i \in 1 .. Len(s) : s[i] = p })

\* s and q hold the same proxies, each as many times.
SameMultiset(s, q) ==
    /\ Len(s) = Len(q)
    /\ \A i \in 1 .. Len(s) :
          /\ Occurrences(s, s[i]) = Occurrences(q, s[i])
          /\ Occurrences(s, q[i]) = Occurrences(q, q[i])

\* The proxies at the positions of the range of f after the step.
RangeAfter(f) == SubSeq(proxies_', f.begin + 1, f.end)

\* C29: a call of a split strategy, whichever of the three, only reorders
\* the proxies of the range it is given.  Every step of a build that
\* changes proxies_ is the split of a call whose range holds the same
\* proxies, each as many times, before and after; every proxy outside
\* that range is unchanged, and so is the range of every call in progress
\* on another thread that has yet to read its proxies.
C29_OnlyRangeReordered ==
    [][(status = "building" /\ proxies_' # proxies_) =>
          \E t \in Threads :
             /\ At(t, "build")
             /\ Len(proxies_') = Len(proxies_)
             /\ SameMultiset(Range(Top(t).begin, Top(t).end), RangeAfter(Top(t)))
             /\ \A i \in 1 .. Len(proxies_) :
                   i \notin SplitPositions(Top(t)) => proxies_'[i] = proxies_[i]
             /\ \A c \in Calls :
                   (c[1] # t /\ YetToAccess(FrameOf(c))) =>
                      RangeAfter(FrameOf(c))
                         = Range(FrameOf(c).begin, FrameOf(c).end)]_vars

\* A call on two of three proxies has split its range while a call on
\* another thread was in progress, and the proxies are no longer in the
\* order of the input.
C29_Witness ==
    /\ status = "building"
    /\ Len(proxies_) = 3
    /\ proxies_ # MakeProxies(input)
    /\ \E c, d \in Calls :
          /\ c[1] # d[1]
          /\ HasSplit(FrameOf(c))
          /\ FrameOf(c).end - FrameOf(c).begin = 2
          /\ Range(FrameOf(c).begin, FrameOf(c).end)
                # SubSeq(MakeProxies(input), FrameOf(c).begin + 1, FrameOf(c).end)
          /\ Disjoint(FrameOf(c), FrameOf(d))

(***************************************************************************)
(* The indices of the queue.                                               *)
(***************************************************************************)
\* C30: in every state of a static_queue reached by push, pop and clear,
\* 0 <= bot_ <= top_ <= N, an empty queue has bot_ = top_ = 0, and full()
\* is true exactly when size() = capacity().
C30_QueueIndices ==
    status = "queue" =>
        /\ 0 <= bot_
        /\ bot_ <= top_
        /\ top_ <= QueueN
        /\ QueueEmpty => (bot_ = 0 /\ top_ = 0)
        /\ QueueFull <=> (QueueSize = QueueCapacity)

\* pop has taken the last value out of a queue every element of whose
\* arr_ has held a value, and the queue is empty.
C30_Witness ==
    /\ status = "queue"
    /\ last.call = "pop"
    /\ last.thrown = "none"
    /\ QueueEmpty
    /\ \A i \in 1 .. QueueN : arr_[i] # Default
====
